---- MODULE Spec2Model ----
(***************************************************************************)
(* Model of the render-context pool (src/src/browser-pool.ts), the capture *)
(* pipeline and the batch fan-out (screenshot.ts variants) and the /batch  *)
(* handler (index.ts variants) of railway-screenshot-api.                  *)
(*                                                                         *)
(* Scheduling is Node's event loop: one macrotask (timer, renderer reply,  *)
(* incoming request) runs with all the promise continuations it makes      *)
(* runnable before the next macrotask starts.  An action is therefore one  *)
(* macrotask together with the code that runs up to the next await.  The   *)
(* one continuation kept as a step of its own is the one of                *)
(* `pooledPage = await this.createPooledPage()`: the page is already in    *)
(* this.pages with inUse = false when it is scheduled.  While such a       *)
(* continuation is queued no macrotask may start (Macrotask below).        *)
(***************************************************************************)
EXTENDS Integers, Sequences, FiniteSets, TLC

\* ---- bounds -------------------------------------------------------------
NumCallers == 3          \* concurrent acquire()/capture() calls in flight
PoolSize == 1            \* POOL_SIZE given to new BrowserPool(POOL_SIZE)
MaxCalls == 3            \* acquirePage calls issued in one behaviour
ClockStep == 300001      \* ms by which Date.now() advances in one Tick
MaxNow == 300001         \* last clock value explored
MaxBatch == 2            \* urls in one /batch request (the handler admits 20)
MaxCaptures == 2         \* capture() calls issued in one behaviour
MaxHeight == 900          \* largest document.body.scrollHeight a page starts with
MaxLoads == 2            \* times a page with finite content loads more of it
MaxTotal == 2000         \* totalHeight up to which the scroll pass is followed exactly
MaxImages == 2           \* elements of document.images
WaitStep == 2500         \* ms by which the page's clock advances in one step

\* ---- program constants --------------------------------------------------
maxPageAge == 5 * 60 * 1000

Callers == 1..NumCallers
\* the slots in which captures run (requests being served by the handlers)
Slots == 1..MaxBatch
\* every call creates at most one overflow context and one replacement
Ids == 1..(PoolSize + 2 * MaxCalls)

VARIABLES
  phase,      \* "constructed" | "warming" | "ready" | "failed"  (main / initialize)
  browser,    \* this.browser: "null" | "open"
  pages,      \* this.pages: sequence of context ids
  inUse,      \* PooledPage.inUse of every context object
  createdAt,  \* PooledPage.createdAt of every context object
  closed,     \* ids whose context.close() has been called
  nextId,     \* identity of the next PooledPage object
  warmup,     \* createPooledPage calls of initialize still pending
  replacing,  \* createPooledPage calls of release still pending
  now,        \* Date.now()
  calls,      \* acquirePage calls issued so far
  pc,         \* position of every caller
  held,       \* pooledPage captured by the caller's release closure (0: none)
  overflowed, \* ids created on the overflow path of acquirePage
  retired,    \* ids removed from this.pages by an aged release
  releaseCalls, \* number of times each caller has called its release function
  lost,       \* replacement creations that rejected (logged by console.error)
  build,      \* which screenshot.ts of the repository is deployed
  job,        \* what runs in the slot: "raw" acquirePage call, "take", "batch"
  opts,       \* ScreenshotOptions of the slot's capture (without url)
  url,        \* options.url of the slot's capture
  completion, \* completion of the capture's try block, carried through finally
  tryExit,    \* the completion as it was when the try block was left
  cleanupFailed, \* a cleanup step of the capture rejected
  batch,      \* the /batch request in flight
  many,       \* settlement of the captureMany call of that request
  response,   \* the response of the /batch handler
  cycle,      \* per caller: stats().inUse when its acquirePage call began, and
              \* whether no other acquire or release has run since
  routes,     \* number of page.route handlers installed on every page
  viewport,   \* the viewport size of every page
  net,        \* per slot: the last request its page issued and what became of it
  doc,        \* document.images of the page inspected by waitForImages
  wait,       \* the promise made by waitForImages inside the page
  scroll,     \* the promise made by scrollToBottom inside the page
  probe,      \* the last url given to shouldBlockUrl and its answer
  shutdown    \* progress of the SIGTERM handler through pool.close()

poolVars == <<phase, browser, pages, inUse, createdAt, closed, nextId, warmup,
              replacing, now, calls, pc, held, overflowed, retired, releaseCalls,
              lost>>
capVars == <<build, job, opts, url, completion, tryExit, cleanupFailed, batch,
             many, response>>
auxVars == <<cycle, routes, viewport, net, doc, wait, scroll, probe, shutdown>>
auxNoCycle == <<routes, viewport, net, doc, wait, scroll, probe, shutdown>>
vars == <<poolVars, capVars, auxVars>>

\* ---- helpers ------------------------------------------------------------
\* Array.prototype.indexOf on this.pages: 0 stands for -1
indexOf(pgs, p) ==
  IF \E i \in 1..Len(pgs) : pgs[i] = p
  THEN CHOOSE i \in 1..Len(pgs) : pgs[i] = p /\ \A j \in 1..(i - 1) : pgs[j] # p
  ELSE 0

\* this.pages.splice(index, 1)
splice(pgs, index) ==
  [i \in 1..(Len(pgs) - 1) |-> IF i < index THEN pgs[i] ELSE pgs[i + 1]]

\* this.pages.find((p) => !p.inUse): first free context, 0 for undefined
findMutant(pgs, use) == IF Len(pgs) > 0 THEN pgs[1] ELSE 0
find(pgs, use) ==
  IF \E i \in 1..Len(pgs) : ~use[pgs[i]]
  THEN pgs[CHOOSE i \in 1..Len(pgs) :
             ~use[pgs[i]] /\ \A j \in 1..(i - 1) : use[pgs[j]]]
  ELSE 0

\* getStats()
getStatsMutant(pgs, use) ==
  [total     |-> PoolSize,
   available |-> Cardinality({i \in 1..Len(pgs) : ~use[pgs[i]]}),
   inUse     |-> Cardinality({i \in 1..Len(pgs) : use[pgs[i]]})]
getStats(pgs, use) ==
  [total     |-> Len(pgs),
   available |-> Cardinality({i \in 1..Len(pgs) : ~use[pgs[i]]}),
   inUse     |-> Cardinality({i \in 1..Len(pgs) : use[pgs[i]]})]

stats == getStats(pages, inUse)

\* the release-time age test
tooOldMutant(p) == FALSE
tooOld(p) == now - createdAt[p] > maxPageAge

\* ---- ScreenshotOptions ----------------------------------------------------
\* an absent field of the options object is a field missing from the record
blockAdsOf(o) == IF "blockAds" \in DOMAIN o THEN o.blockAds ELSE TRUE
fullPageOf(o) == IF "fullPage" \in DOMAIN o THEN o.fullPage ELSE FALSE
delayOf(o) == IF "delay" \in DOMAIN o THEN o.delay ELSE 0
typeOf(o) == IF "type" \in DOMAIN o THEN o.type ELSE "png"

\* deviceViewports
deviceViewports ==
  [desktop |-> [width |-> 1280, height |-> 720],
   tablet  |-> [width |-> 768, height |-> 1024],
   mobile  |-> [width |-> 375, height |-> 667]]

\* `x || d` for a number or an absent field: 0 and undefined give d
orDefault(o, field, d) ==
  IF field \in DOMAIN o /\ o[field] # 0 THEN o[field] ELSE d

\* the viewport that capture() gives to page.setViewportSize
viewportOfMutant(o) ==
  [width  |-> orDefault(o, "width", 1280),
   height |-> orDefault(o, "height", 720)]
viewportOf(o) ==
  IF "device" \in DOMAIN o
  THEN deviceViewports[o.device]
  ELSE [width  |-> orDefault(o, "width", 1280),
        height |-> orDefault(o, "height", 720)]

\* ---- completions of a capture ------------------------------------------------
NoCompletion == [kind |-> "none"]
Return(buf) == [kind |-> "return", buf |-> buf]
Throw(msg) == [kind |-> "throw", message |-> msg]
\* the Buffer that page.screenshot / page.pdf yields for this request
Buffer(u, o) == [tag |-> "Buffer", type |-> typeOf(o), url |-> u]

\* ---- the order of the awaited operations of capture() ------------------------
firstOp(o) == IF build # "basic" /\ blockAdsOf(o) THEN "route" ELSE "viewport"
delayOrExport(o) == IF delayOf(o) > 0 THEN "delay" ELSE "export"
afterGoto(o) ==
  IF build = "basic" THEN delayOrExport(o)
  ELSE IF fullPageOf(o) THEN "scroll"
  ELSE IF build = "images" THEN "images"
  ELSE delayOrExport(o)
afterScroll(o) == IF build = "images" THEN "images" ELSE delayOrExport(o)
finallyStart == IF build = "basic" THEN "blank" ELSE "unroute"
\* the scope given to waitForImages: `false` after the scroll pass of a
\* whole-page capture, `true` otherwise
viewportOnlyOf(o) == ~fullPageOf(o)

\* where control goes when an awaited operation of the try block rejects
onThrowMutant == "settled"
onThrow == finallyStart

\* promise.catch(() => {}): whether the awaited cleanup promise fulfils,
\* given whether the cleanup operation itself did
catchSwallowMutant(ok) == ok
catchSwallow(ok) == TRUE

\* position of a caller when acquirePage has returned to it: a direct caller
\* holds the page; capture() runs on to its first awaited operation
afterAcquire(c) == IF job[c] = "none" THEN "acquired" ELSE firstOp(opts[c])

HoldPcs == {"acquired", "route", "viewport", "goto", "scroll", "images",
            "delay", "export", "unroute", "blank"}
\* acquirePage has returned a context to c and c has not called release
Holding(c) == pc[c] \in HoldPcs
\* the capture in slot c has settled
Settled(c) == job[c] # "none" /\ pc[c] \in {"settled", "acquireFailed"}
\* what the capture of slot c settled with
outcomeOf(c) ==
  IF pc[c] = "acquireFailed" THEN Throw("newContext") ELSE completion[c]

\* ---- the batch in flight ------------------------------------------------------
Items == IF batch.state = "none" THEN {} ELSE 1..Len(batch.urls)
Rejected(c) == Settled(c) /\ outcomeOf(c).kind = "throw"
Fulfilled(c) == Settled(c) /\ outcomeOf(c).kind = "return"
\* the promise awaited by captureMany settles: Promise.all on the first
\* rejection or when every capture has fulfilled, Promise.allSettled when
\* every capture has settled
BatchReady ==
  /\ batch.state = "running"
  /\ IF build = "basic"
     THEN (\E c \in Items : Rejected(c)) \/ (\A c \in Items : Fulfilled(c))
     ELSE \A c \in Items : Settled(c)

\* ---- acquire/release cycles -----------------------------------------------------
\* nothing recorded yet: no request, no image wait, no question to the blocklist
NoRequest == [state |-> "none"]
NoWait == [state |-> "idle"]
NoProbe == [state |-> "none"]
NoScroll == [state |-> "idle"]

NoCycle == [before |-> 0, alone |-> FALSE, passed |-> FALSE, aged |-> FALSE]
\* the value of `cycle` in behaviours that keep no record of the cycles
Untracked ==
  [c \in Callers |-> [before |-> 0, alone |-> FALSE, passed |-> FALSE,
                      aged |-> FALSE, off |-> TRUE]]
\* the record after an update f, where a record is kept
tracked(f) == IF cycle = Untracked THEN cycle ELSE f
\* the record of d when another caller acquires or releases; `passed` says
\* whether a call issued later has been given a context while d was waiting
cut(d, now_passed) ==
  [before |-> 0, alone |-> FALSE, passed |-> cycle[d].passed \/ now_passed,
   aged |-> cycle[d].aged]
\* c calls acquirePage: the cycle of c begins, that of everybody else is cut;
\* c passes the callers in their wait interval if its scan finds a context
beginCycle(c) ==
  tracked([d \in Callers |->
             IF d = c
             THEN [before |-> stats.inUse, alone |-> TRUE, passed |-> FALSE,
                   aged |-> find(pages, inUse) # 0 /\ tooOld(find(pages, inUse))]
             ELSE cut(d, pc[d] = "waiting" /\ find(pages, inUse) # 0)])
\* acquirePage marks a context for c, or c calls its release function
disturb(c) ==
  tracked([d \in Callers |-> IF d = c THEN cycle[d] ELSE cut(d, FALSE)])
\* the rescan of c marks context p; `aged` says whether the context was
\* already beyond maxPageAge when it was handed out
marked(c, p) ==
  tracked([d \in Callers |->
             IF d = c THEN [cycle[d] EXCEPT !.aged = tooOld(p)] ELSE cut(d, FALSE)])
\* the callers in S go back to idle
endCycle(S) == tracked([d \in Callers |-> IF d \in S THEN NoCycle ELSE cycle[d]])

\* ---- event loop ------------------------------------------------------------
\* a promise continuation is queued: that of an awaited createPooledPage, or
\* that of captureMany
MicrotaskPending == (\E c \in Callers : pc[c] = "created") \/ BatchReady
\* the process has not exited
Alive == shutdown.state \notin {"exited", "rejected"}
Macrotask == Alive /\ ~MicrotaskPending

\* ---- Init: state after `new BrowserPool(POOL_SIZE)` ----------------------
PoolInit ==
  /\ phase = "constructed"
  /\ browser = "null"
  /\ pages = <<>>
  /\ inUse = [i \in Ids |-> FALSE]
  /\ createdAt = [i \in Ids |-> 0]
  /\ closed = {}
  /\ nextId = 1
  /\ warmup = 0
  /\ replacing = 0
  /\ now = 0
  /\ calls = 0
  /\ pc = [c \in Callers |-> "idle"]
  /\ held = [c \in Callers |-> 0]
  /\ overflowed = {}
  /\ retired = {}
  /\ releaseCalls = [c \in Callers |-> 0]
  /\ lost = 0
  /\ routes = [i \in Ids |-> 0]
  /\ viewport = [i \in Ids |-> [width |-> 1280, height |-> 720]]
  /\ shutdown = [state |-> "none", index |-> 0]

\* ---- initialize() / main() -----------------------------------------------
\* chromium.launch resolves; the poolSize createPooledPage calls are issued
Launch ==
  /\ Macrotask
  /\ phase = "constructed"
  /\ phase' = "warming"
  /\ browser' = "open"
  /\ warmup' = PoolSize
  /\ UNCHANGED <<pages, inUse, createdAt, closed, nextId, replacing, now,
                 calls, pc, held, overflowed, retired, releaseCalls, lost>>
  /\ UNCHANGED capVars
  /\ UNCHANGED auxVars

\* chromium.launch rejects: main().catch -> process.exit(1)
LaunchFail ==
  /\ Macrotask
  /\ phase = "constructed"
  /\ phase' = "failed"
  /\ UNCHANGED <<browser, pages, inUse, createdAt, closed, nextId, warmup,
                 replacing, now, calls, pc, held, overflowed, retired,
                 releaseCalls, lost>>
  /\ UNCHANGED capVars
  /\ UNCHANGED auxVars

\* the body of createPooledPage after its awaits: a new free object is pushed
pushNew ==
  /\ pages' = Append(pages, nextId)
  /\ inUse' = [inUse EXCEPT ![nextId] = FALSE]
  /\ createdAt' = [createdAt EXCEPT ![nextId] = now]
  /\ nextId' = nextId + 1

\* one warm-up createPooledPage completes; the last one resolves Promise.all,
\* main() builds the service and starts listening
WarmupOk ==
  /\ Macrotask
  /\ phase = "warming"
  /\ warmup > 0
  /\ pushNew
  /\ warmup' = warmup - 1
  /\ phase' = IF warmup = 1 THEN "ready" ELSE "warming"
  /\ UNCHANGED <<browser, closed, replacing, now, calls, pc, held,
                 overflowed, retired, releaseCalls, lost>>
  /\ UNCHANGED capVars
  /\ UNCHANGED auxVars

\* one warm-up creation rejects: Promise.all rejects, startup is aborted
WarmupFailMutant ==
  /\ Macrotask
  /\ phase = "warming"
  /\ warmup > 0
  /\ warmup' = warmup - 1
  /\ phase' = IF warmup = 1 THEN "ready" ELSE "warming"
  /\ UNCHANGED <<browser, pages, inUse, createdAt, closed, nextId,
                 replacing, now, calls, pc, held, overflowed, retired,
                 releaseCalls, lost>>
  /\ UNCHANGED capVars
  /\ UNCHANGED auxVars
WarmupFail ==
  /\ Macrotask
  /\ phase = "warming"
  /\ warmup > 0
  /\ phase' = "failed"
  /\ UNCHANGED <<browser, pages, inUse, createdAt, closed, nextId, warmup,
                 replacing, now, calls, pc, held, overflowed, retired,
                 releaseCalls, lost>>
  /\ UNCHANGED capVars
  /\ UNCHANGED auxVars

\* ---- acquirePage() --------------------------------------------------------
\* `if (!pooledPage) await new Promise((resolve) => setTimeout(resolve, 100))`:
\* where a call whose first scan found nothing goes
onNoneFreeMutant == "creating"
onNoneFree == "waiting"

\* first segment: scan, and either mark and return or start the 100ms timer
acquireBodyMutant(c, nxt) ==
  LET p == find(pages, inUse) IN
  /\ cycle' = beginCycle(c)
  /\ IF p # 0 /\ \A d \in Callers : pc[d] # "waiting"
     THEN /\ inUse' = [inUse EXCEPT ![p] = TRUE]
          /\ held' = [held EXCEPT ![c] = p]
          /\ pc' = [pc EXCEPT ![c] = nxt]
     ELSE /\ pc' = [pc EXCEPT ![c] = onNoneFree]
          /\ UNCHANGED <<inUse, held>>
acquireBody(c, nxt) ==
  LET p == find(pages, inUse) IN
  /\ cycle' = beginCycle(c)
  /\ IF p # 0
     THEN /\ inUse' = [inUse EXCEPT ![p] = TRUE]
          /\ held' = [held EXCEPT ![c] = p]
          /\ pc' = [pc EXCEPT ![c] = nxt]
     ELSE /\ pc' = [pc EXCEPT ![c] = onNoneFree]
          /\ UNCHANGED <<inUse, held>>

\* a direct caller of the pool calls acquirePage
AcquirePage(c) ==
  /\ Macrotask
  /\ phase = "ready"
  /\ pc[c] = "idle"
  /\ job[c] = "none"
  /\ calls < MaxCalls
  /\ calls' = calls + 1
  /\ acquireBody(c, "acquired")
  /\ UNCHANGED <<phase, browser, pages, createdAt, closed, nextId, warmup,
                 replacing, now, overflowed, retired, releaseCalls, lost>>
  /\ UNCHANGED capVars
  /\ UNCHANGED auxNoCycle

\* acquirePage is called on a pool whose initialize() has not completed
AcquireCold(c) ==
  /\ Macrotask
  /\ phase \in {"constructed", "warming"}
  /\ pc[c] = "idle"
  /\ job[c] = "none"
  /\ calls < MaxCalls
  /\ calls' = calls + 1
  /\ acquireBody(c, "acquired")
  /\ UNCHANGED <<phase, browser, pages, createdAt, closed, nextId, warmup,
                 replacing, now, overflowed, retired, releaseCalls, lost>>
  /\ UNCHANGED capVars
  /\ UNCHANGED auxNoCycle

\* the timer fires: rescan, and either mark and return or call
\* createPooledPage, which throws `Browser not initialized` when this.browser
\* is null and issues its newContext call otherwise
RescanMutant(c) ==
  /\ Macrotask
  /\ pc[c] = "waiting"
  /\ LET p == find(pages, inUse) IN
       IF p # 0
       THEN /\ inUse' = [inUse EXCEPT ![p] = TRUE]
            /\ held' = [held EXCEPT ![c] = p]
            /\ pc' = [pc EXCEPT ![c] = afterAcquire(c)]
            /\ cycle' = marked(c, p)
       ELSE UNCHANGED <<pc, inUse, held, cycle>>
  /\ UNCHANGED <<phase, browser, pages, createdAt, closed, nextId, warmup,
                 replacing, now, calls, overflowed, retired, releaseCalls, lost>>
  /\ UNCHANGED capVars
  /\ UNCHANGED auxNoCycle
Rescan(c) ==
  /\ Macrotask
  /\ pc[c] = "waiting"
  /\ LET p == find(pages, inUse) IN
       IF p # 0
       THEN /\ inUse' = [inUse EXCEPT ![p] = TRUE]
            /\ held' = [held EXCEPT ![c] = p]
            /\ pc' = [pc EXCEPT ![c] = afterAcquire(c)]
            /\ cycle' = marked(c, p)
       ELSE /\ pc' = [pc EXCEPT ![c] = IF browser = "null" THEN "acquireFailed"
                                                          ELSE "creating"]
            /\ UNCHANGED <<inUse, held, cycle>>
  /\ UNCHANGED <<phase, browser, pages, createdAt, closed, nextId, warmup,
                 replacing, now, calls, overflowed, retired, releaseCalls, lost>>
  /\ UNCHANGED capVars
  /\ UNCHANGED auxNoCycle

\* the overflow createPooledPage completes: the object is pushed, free
CreateOk(c) ==
  /\ Macrotask
  /\ pc[c] = "creating"
  /\ pushNew
  /\ held' = [held EXCEPT ![c] = nextId]
  /\ overflowed' = overflowed \cup {nextId}
  /\ pc' = [pc EXCEPT ![c] = "created"]
  /\ UNCHANGED <<phase, browser, closed, warmup, replacing, now, calls,
                 retired, releaseCalls, lost>>
  /\ UNCHANGED capVars
  /\ UNCHANGED auxVars

\* newContext / newPage rejects: acquirePage rejects (and with it capture(),
\* whose acquirePage call is outside its try block)
CreateFailMutant(c) ==
  /\ Macrotask
  /\ pc[c] = "creating"
  /\ pushNew
  /\ pc' = [pc EXCEPT ![c] = "acquireFailed"]
  /\ UNCHANGED <<phase, browser, closed, warmup, replacing, now, calls, held,
                 overflowed, retired, releaseCalls, lost>>
  /\ UNCHANGED capVars
  /\ UNCHANGED auxVars
CreateFail(c) ==
  /\ Macrotask
  /\ pc[c] = "creating"
  /\ pc' = [pc EXCEPT ![c] = "acquireFailed"]
  /\ UNCHANGED <<phase, browser, pages, inUse, createdAt, closed, nextId,
                 warmup, replacing, now, calls, held, overflowed, retired,
                 releaseCalls, lost>>
  /\ UNCHANGED capVars
  /\ UNCHANGED auxVars

\* continuation of `await this.createPooledPage()`: mark and return
MarkCreated(c) ==
  /\ Alive
  /\ pc[c] = "created"
  /\ inUse' = [inUse EXCEPT ![held[c]] = TRUE]
  /\ cycle' = disturb(c)
  /\ pc' = [pc EXCEPT ![c] = afterAcquire(c)]
  /\ UNCHANGED <<phase, browser, pages, createdAt, closed, nextId, warmup,
                 replacing, now, calls, held, overflowed, retired,
                 releaseCalls, lost>>
  /\ UNCHANGED capVars
  /\ UNCHANGED auxNoCycle

\* ---- release() ------------------------------------------------------------
\* the release closure up to `await pooledPage.context.close()`; `nxt` is the
\* caller's position when release returns without retiring
releaseBodyMutant(c, nxt) ==
  LET p == held[c] IN
  /\ UNCHANGED inUse
  /\ releaseCalls' = [releaseCalls EXCEPT ![c] = @ + 1]
  /\ cycle' = disturb(c)
  /\ IF tooOld(p) /\ indexOf(pages, p) > 0
     THEN /\ pages' = splice(pages, indexOf(pages, p))
          /\ retired' = retired \cup {p}
          /\ pc' = [pc EXCEPT ![c] = "closing"]
     ELSE /\ pc' = [pc EXCEPT ![c] = nxt]
          /\ UNCHANGED <<pages, retired>>
releaseBody(c, nxt) ==
  LET p == held[c] IN
  /\ inUse' = [inUse EXCEPT ![p] = FALSE]
  /\ releaseCalls' = [releaseCalls EXCEPT ![c] = @ + 1]
  /\ cycle' = disturb(c)
  /\ IF tooOld(p) /\ indexOf(pages, p) > 0
     THEN /\ pages' = splice(pages, indexOf(pages, p))
          /\ retired' = retired \cup {p}
          /\ pc' = [pc EXCEPT ![c] = "closing"]
     ELSE /\ pc' = [pc EXCEPT ![c] = nxt]
          /\ UNCHANGED <<pages, retired>>

\* a direct caller of acquirePage calls its release function
Release(c) ==
  /\ Macrotask
  /\ pc[c] = "acquired"
  /\ releaseBody(c, "done")
  /\ UNCHANGED <<phase, browser, createdAt, closed, nextId, warmup,
                 replacing, now, calls, held, overflowed, lost>>
  /\ UNCHANGED capVars
  /\ UNCHANGED auxNoCycle

\* context.close() settles; its rejection is swallowed; the replacement
\* createPooledPage is started and not awaited; release returns, and a
\* capture settles with the completion of its try block
ContextClosed(c) ==
  /\ Macrotask
  /\ pc[c] = "closing"
  /\ closed' = closed \cup {held[c]}
  /\ \E ok \in BOOLEAN :
       IF catchSwallow(ok)
       THEN /\ replacing' = replacing + 1
            /\ pc' = [pc EXCEPT ![c] = IF job[c] = "none" THEN "done"
                                                          ELSE "settled"]
            /\ cleanupFailed' = [cleanupFailed EXCEPT ![c] = @ \/ ~ok]
            /\ UNCHANGED completion
       ELSE /\ pc' = [pc EXCEPT ![c] = IF job[c] = "none" THEN "done"
                                                          ELSE "settled"]
            /\ completion' = [completion EXCEPT ![c] = Throw("close")]
            /\ cleanupFailed' = [cleanupFailed EXCEPT ![c] = TRUE]
            /\ UNCHANGED replacing
  /\ UNCHANGED <<phase, browser, pages, inUse, createdAt, nextId, warmup,
                 now, calls, held, overflowed, retired, releaseCalls, lost>>
  /\ UNCHANGED <<build, job, opts, url, tryExit, batch, many, response>>
  /\ UNCHANGED auxVars

\* a replacement createPooledPage completes
ReplacementOk ==
  /\ Macrotask
  /\ replacing > 0
  /\ pushNew
  /\ replacing' = replacing - 1
  /\ UNCHANGED <<phase, browser, closed, warmup, now, calls, pc, held,
                 overflowed, retired, releaseCalls, lost>>
  /\ UNCHANGED capVars
  /\ UNCHANGED auxVars

\* a replacement createPooledPage rejects: .catch(console.error)
ReplacementFail ==
  /\ Macrotask
  /\ replacing > 0
  /\ replacing' = replacing - 1
  /\ lost' = lost + 1
  /\ UNCHANGED <<phase, browser, pages, inUse, createdAt, closed, nextId,
                 warmup, now, calls, pc, held, overflowed, retired,
                 releaseCalls>>
  /\ UNCHANGED capVars
  /\ UNCHANGED auxVars

\* ---- environment ----------------------------------------------------------
\* Date.now() advances; start-up takes far less than one ClockStep
Tick ==
  /\ Macrotask
  /\ phase = "ready"
  /\ now < MaxNow
  /\ now' = now + ClockStep
  /\ UNCHANGED <<phase, browser, pages, inUse, createdAt, closed, nextId,
                 warmup, replacing, calls, pc, held, overflowed, retired,
                 releaseCalls, lost>>
  /\ UNCHANGED capVars
  /\ UNCHANGED auxVars

\* the call in the slot is over (a direct call, or a /take request that has
\* been answered); the slot serves the next call
NextCall(c) ==
  /\ Macrotask
  /\ job[c] \in {"none", "take"}
  /\ pc[c] \in {"done", "settled", "acquireFailed"}
  /\ calls < MaxCalls
  /\ pc' = [pc EXCEPT ![c] = "idle"]
  /\ held' = [held EXCEPT ![c] = 0]
  /\ releaseCalls' = [releaseCalls EXCEPT ![c] = 0]
  /\ cycle' = endCycle({c})
  /\ net' = [net EXCEPT ![c] = NoRequest]
  /\ job' = [job EXCEPT ![c] = "none"]
  /\ opts' = [opts EXCEPT ![c] = [type |-> "png"]]
  /\ url' = [url EXCEPT ![c] = ""]
  /\ completion' = [completion EXCEPT ![c] = NoCompletion]
  /\ tryExit' = [tryExit EXCEPT ![c] = NoCompletion]
  /\ cleanupFailed' = [cleanupFailed EXCEPT ![c] = FALSE]
  /\ UNCHANGED <<phase, browser, pages, inUse, createdAt, closed, nextId,
                 warmup, replacing, now, calls, overflowed, retired, lost>>
  /\ UNCHANGED <<build, batch, many, response>>
  /\ UNCHANGED <<routes, viewport, doc, wait, scroll, probe, shutdown>>

PoolStep ==
  \/ Launch
  \/ LaunchFail
  \/ WarmupOk
  \/ WarmupFail
  \/ \E c \in Callers : Rescan(c)
  \/ \E c \in Callers : CreateOk(c)
  \/ \E c \in Callers : CreateFail(c)
  \/ \E c \in Callers : MarkCreated(c)
  \/ \E c \in Callers : ContextClosed(c)
  \/ ReplacementOk
  \/ ReplacementFail
  \/ Tick

CapInit ==
  /\ job = [c \in Callers |-> "none"]
  /\ opts = [c \in Callers |-> [type |-> "png"]]
  /\ url = [c \in Callers |-> ""]
  /\ completion = [c \in Callers |-> NoCompletion]
  /\ tryExit = [c \in Callers |-> NoCompletion]
  /\ cleanupFailed = [c \in Callers |-> FALSE]
  /\ batch = [state |-> "none"]
  /\ many = [state |-> "none"]
  /\ response = [status |-> 0]
  /\ net = [c \in Callers |-> NoRequest]

\* ---- inputs ------------------------------------------------------------------
Builds == {"basic", "blocking", "images"}
Urls == {"a", "b"}
TakeUrls == {"a"}
\* messages of the errors the renderer raises: a failed navigation (an Error
\* may carry an empty message) and a failure of any other page operation
GotoErrors == {"net::ERR_NAME_NOT_RESOLVED", ""}
RendererError == "Target closed"
\* message of the error of a navigation whose request was aborted
AbortedError == "net::ERR_FAILED"
\* option objects that reach capture(), one for every branch of its body
OptionSet == {[type |-> "png"],
              [blockAds |-> FALSE, device |-> "mobile", width |-> 800],
              [fullPage |-> TRUE, width |-> 800],
              [delay |-> 1, type |-> "pdf", height |-> 600]}
\* url lists of a /batch request
UrlLists == UNION {[1..n -> Urls] : n \in 1..MaxBatch}

poolFrame == <<phase, browser, pages, inUse, createdAt, closed, nextId, warmup,
               replacing, now, calls, held, overflowed, retired, releaseCalls,
               lost>>

\* ---- the blocklist ---------------------------------------------------------------
\* strings are sequences of one-character strings
BLOCKED_PATTERNS == <<
  <<"*", ":", "/", "/", "*", ".", "d", "o", "u", "b", "l", "e", "c",
    "l", "i", "c", "k", ".", "n", "e", "t", "/", "*">>,
  <<"*", ":", "/", "/", "*", ".", "g", "o", "o", "g", "l", "e", "s",
    "y", "n", "d", "i", "c", "a", "t", "i", "o", "n", ".", "c", "o", "m",
    "/", "*">>,
  <<"*", ":", "/", "/", "*", ".", "g", "o", "o", "g", "l", "e", "a",
    "d", "s", "e", "r", "v", "i", "c", "e", "s", ".", "c", "o", "m", "/",
    "*">>,
  <<"*", ":", "/", "/", "*", ".", "g", "o", "o", "g", "l", "e", "-",
    "a", "n", "a", "l", "y", "t", "i", "c", "s", ".", "c", "o", "m", "/",
    "*">>,
  <<"*", ":", "/", "/", "*", ".", "g", "o", "o", "g", "l", "e", "t",
    "a", "g", "m", "a", "n", "a", "g", "e", "r", ".", "c", "o", "m", "/",
    "*">>,
  <<"*", ":", "/", "/", "*", ".", "g", "o", "o", "g", "l", "e", "t",
    "a", "g", "s", "e", "r", "v", "i", "c", "e", "s", ".", "c", "o", "m",
    "/", "*">>,
  <<"*", ":", "/", "/", "*", ".", "f", "a", "c", "e", "b", "o", "o",
    "k", ".", "n", "e", "t", "/", "*">>,
  <<"*", ":", "/", "/", "*", ".", "f", "a", "c", "e", "b", "o", "o",
    "k", ".", "c", "o", "m", "/", "t", "r", "/", "*">>,
  <<"*", ":", "/", "/", "*", ".", "f", "b", "c", "d", "n", ".", "n",
    "e", "t", "/", "s", "i", "g", "n", "a", "l", "s", "/", "*">>,
  <<"*", ":", "/", "/", "*", ".", "a", "m", "a", "z", "o", "n", "-",
    "a", "d", "s", "y", "s", "t", "e", "m", ".", "c", "o", "m", "/",
    "*">>,
  <<"*", ":", "/", "/", "*", ".", "a", "d", "s", "r", "v", "r", ".",
    "o", "r", "g", "/", "*">>,
  <<"*", ":", "/", "/", "*", ".", "a", "d", "n", "x", "s", ".", "c",
    "o", "m", "/", "*">>,
  <<"*", ":", "/", "/", "*", ".", "c", "r", "i", "t", "e", "o", ".",
    "c", "o", "m", "/", "*">>,
  <<"*", ":", "/", "/", "*", ".", "c", "r", "i", "t", "e", "o", ".",
    "n", "e", "t", "/", "*">>,
  <<"*", ":", "/", "/", "*", ".", "o", "u", "t", "b", "r", "a", "i",
    "n", ".", "c", "o", "m", "/", "*">>,
  <<"*", ":", "/", "/", "*", ".", "t", "a", "b", "o", "o", "l", "a",
    ".", "c", "o", "m", "/", "*">>,
  <<"*", ":", "/", "/", "*", ".", "p", "u", "b", "m", "a", "t", "i",
    "c", ".", "c", "o", "m", "/", "*">>,
  <<"*", ":", "/", "/", "*", ".", "r", "u", "b", "i", "c", "o", "n",
    "p", "r", "o", "j", "e", "c", "t", ".", "c", "o", "m", "/", "*">>,
  <<"*", ":", "/", "/", "*", ".", "o", "p", "e", "n", "x", ".", "n",
    "e", "t", "/", "*">>,
  <<"*", ":", "/", "/", "*", ".", "c", "a", "s", "a", "l", "e", "m",
    "e", "d", "i", "a", ".", "c", "o", "m", "/", "*">>,
  <<"*", ":", "/", "/", "*", ".", "a", "d", "v", "e", "r", "t", "i",
    "s", "i", "n", "g", ".", "c", "o", "m", "/", "*">>,
  <<"*", ":", "/", "/", "*", ".", "a", "d", "f", "o", "r", "m", ".",
    "n", "e", "t", "/", "*">>,
  <<"*", ":", "/", "/", "*", ".", "a", "d", "s", "-", "t", "w", "i",
    "t", "t", "e", "r", ".", "c", "o", "m", "/", "*">>,
  <<"*", ":", "/", "/", "*", ".", "m", "o", "a", "t", "a", "d", "s",
    ".", "c", "o", "m", "/", "*">>,
  <<"*", ":", "/", "/", "*", ".", "q", "u", "a", "n", "t", "s", "e",
    "r", "v", "e", ".", "c", "o", "m", "/", "*">>,
  <<"*", ":", "/", "/", "*", ".", "s", "c", "o", "r", "e", "c", "a",
    "r", "d", "r", "e", "s", "e", "a", "r", "c", "h", ".", "c", "o", "m",
    "/", "*">>,
  <<"*", ":", "/", "/", "*", ".", "r", "l", "c", "d", "n", ".", "c",
    "o", "m", "/", "*">>,
  <<"*", ":", "/", "/", "*", ".", "b", "l", "u", "e", "k", "a", "i",
    ".", "c", "o", "m", "/", "*">>,
  <<"*", ":", "/", "/", "*", ".", "k", "r", "x", "d", ".", "n", "e",
    "t", "/", "*">>,
  <<"*", ":", "/", "/", "*", ".", "e", "x", "e", "l", "a", "t", "o",
    "r", ".", "c", "o", "m", "/", "*">>,
  <<"*", ":", "/", "/", "*", ".", "e", "v", "e", "r", "e", "s", "t",
    "t", "e", "c", "h", ".", "n", "e", "t", "/", "*">>,
  <<"*", ":", "/", "/", "*", ".", "c", "o", "o", "k", "i", "e", "l",
    "a", "w", ".", "o", "r", "g", "/", "*">>,
  <<"*", ":", "/", "/", "*", ".", "c", "o", "o", "k", "i", "e", "b",
    "o", "t", ".", "c", "o", "m", "/", "*">>,
  <<"*", ":", "/", "/", "*", ".", "o", "n", "e", "t", "r", "u", "s",
    "t", ".", "c", "o", "m", "/", "*">>,
  <<"*", ":", "/", "/", "*", ".", "t", "r", "u", "s", "t", "a", "r",
    "c", ".", "c", "o", "m", "/", "*">>,
  <<"*", ":", "/", "/", "*", ".", "c", "o", "o", "k", "i", "e", "p",
    "r", "o", ".", "c", "o", "m", "/", "*">>,
  <<"*", ":", "/", "/", "*", ".", "c", "o", "n", "s", "e", "n", "t",
    "m", "a", "n", "a", "g", "e", "r", ".", "n", "e", "t", "/", "*">>,
  <<"*", ":", "/", "/", "*", ".", "u", "s", "e", "r", "c", "e", "n",
    "t", "r", "i", "c", "s", ".", "e", "u", "/", "*">>,
  <<"*", ":", "/", "/", "*", ".", "p", "r", "i", "v", "a", "c", "y",
    "m", "a", "n", "a", "g", "e", "r", ".", "i", "o", "/", "*">>,
  <<"*", ":", "/", "/", "*", ".", "t", "e", "r", "m", "l", "y", ".",
    "i", "o", "/", "*">>,
  <<"*", ":", "/", "/", "*", ".", "i", "u", "b", "e", "n", "d", "a",
    ".", "c", "o", "m", "/", "*">>,
  <<"*", ":", "/", "/", "*", ".", "h", "o", "t", "j", "a", "r", ".",
    "c", "o", "m", "/", "*">>,
  <<"*", ":", "/", "/", "*", ".", "f", "u", "l", "l", "s", "t", "o",
    "r", "y", ".", "c", "o", "m", "/", "*">>,
  <<"*", ":", "/", "/", "*", ".", "m", "i", "x", "p", "a", "n", "e",
    "l", ".", "c", "o", "m", "/", "*">>,
  <<"*", ":", "/", "/", "*", ".", "s", "e", "g", "m", "e", "n", "t",
    ".", "i", "o", "/", "*">>,
  <<"*", ":", "/", "/", "*", ".", "s", "e", "g", "m", "e", "n", "t",
    ".", "c", "o", "m", "/", "*">>,
  <<"*", ":", "/", "/", "*", ".", "a", "m", "p", "l", "i", "t", "u",
    "d", "e", ".", "c", "o", "m", "/", "*">>,
  <<"*", ":", "/", "/", "*", ".", "h", "e", "a", "p", "a", "n", "a",
    "l", "y", "t", "i", "c", "s", ".", "c", "o", "m", "/", "*">>,
  <<"*", ":", "/", "/", "*", ".", "m", "o", "u", "s", "e", "f", "l",
    "o", "w", ".", "c", "o", "m", "/", "*">>,
  <<"*", ":", "/", "/", "*", ".", "l", "u", "c", "k", "y", "o", "r",
    "a", "n", "g", "e", ".", "c", "o", "m", "/", "*">>,
  <<"*", ":", "/", "/", "*", ".", "c", "r", "a", "z", "y", "e", "g",
    "g", ".", "c", "o", "m", "/", "*">>,
  <<"*", ":", "/", "/", "*", ".", "i", "n", "s", "p", "e", "c", "t",
    "l", "e", "t", ".", "c", "o", "m", "/", "*">>,
  <<"*", ":", "/", "/", "*", ".", "a", "d", "s", "k", "e", "e", "p",
    "e", "r", ".", "c", "o", "m", "/", "*">>,
  <<"*", ":", "/", "/", "*", ".", "m", "g", "i", "d", ".", "c", "o",
    "m", "/", "*">>,
  <<"*", ":", "/", "/", "*", ".", "r", "e", "v", "c", "o", "n", "t",
    "e", "n", "t", ".", "c", "o", "m", "/", "*">>,
  <<"*", ":", "/", "/", "*", ".", "c", "o", "n", "t", "e", "n", "t",
    ".", "a", "d", "/", "*">>,
  <<"*", ":", "/", "/", "*", ".", "z", "e", "r", "g", "n", "e", "t",
    ".", "c", "o", "m", "/", "*">>
>>

LowerCase == <<"a", "b", "c", "d", "e", "f", "g", "h", "i", "j", "k", "l", "m",
               "n", "o", "p", "q", "r", "s", "t", "u", "v", "w", "x", "y", "z">>
UpperCase == <<"A", "B", "C", "D", "E", "F", "G", "H", "I", "J", "K", "L", "M",
               "N", "O", "P", "Q", "R", "S", "T", "U", "V", "W", "X", "Y", "Z">>
\* Canonicalize of a case-insensitive RegExp: the character in upper case
Canonicalize(ch) ==
  IF \E k \in 1..26 : LowerCase[k] = ch
  THEN UpperCase[CHOOSE k \in 1..26 : LowerCase[k] = ch]
  ELSE ch

\* the characters of the class [.+?^${}()|[\]\\]
Specials == {".", "+", "?", "^", "$", "{", "}", "(", ")", "|", "[", "]", "\\"}
\* the characters `.` does not match
LineTerminators == {"\n", "\r"}

RECURSIVE escapeSpecials(_)
\* pattern.replace(/[.+?^${}()|[\]\\]/g, '\\$&')
escapeSpecialsMutant(str) == str
escapeSpecials(str) ==
  IF str = <<>> THEN <<>>
  ELSE IF Head(str) \in Specials
       THEN <<"\\", Head(str)>> \o escapeSpecials(Tail(str))
       ELSE <<Head(str)>> \o escapeSpecials(Tail(str))

RECURSIVE replaceStars(_)
\* .replace(/\*/g, '.*')
replaceStars(str) ==
  IF str = <<>> THEN <<>>
  ELSE IF Head(str) = "*"
       THEN <<".", "*">> \o replaceStars(Tail(str))
       ELSE <<Head(str)>> \o replaceStars(Tail(str))

RECURSIVE parseRegExp(_)
\* new RegExp(source): the terms of the source, each an atom (an escaped
\* character, `.`, or a plain character) with or without a `*` after it
parseRegExp(source) ==
  IF source = <<>> THEN <<>>
  ELSE LET escape == Head(source) = "\\" /\ Len(source) >= 2
           atom == IF escape THEN [kind |-> "char", ch |-> source[2]]
                   ELSE IF Head(source) = "." THEN [kind |-> "any", ch |-> "."]
                   ELSE [kind |-> "char", ch |-> Head(source)]
           used == IF escape THEN 2 ELSE 1
           star == Len(source) > used /\ source[used + 1] = "*"
           rest == SubSeq(source, used + (IF star THEN 2 ELSE 1), Len(source))
       IN <<[atom |-> atom, star |-> star]>> \o parseRegExp(rest)

\* globToRegex(pattern): new RegExp(`^${escaped}$`, 'i')
globToRegex(pattern) == parseRegExp(replaceStars(escapeSpecials(pattern)))

BLOCKED_REGEXES ==
  [k \in 1..Len(BLOCKED_PATTERNS) |-> globToRegex(BLOCKED_PATTERNS[k])]

\* one atom of a case-insensitive RegExp against one character
atomMatches(atom, ch) ==
  IF atom.kind = "any" THEN ch \notin LineTerminators
  ELSE Canonicalize(atom.ch) = Canonicalize(ch)

RECURSIVE matchFrom(_, _, _, _)
\* the terms of regex from the k-th on match str from position j up to its
\* end (the source is anchored by ^ and $)
matchFrom(regex, k, str, j) ==
  IF k > Len(regex) THEN j > Len(str)
  ELSE IF regex[k].star
       THEN \/ matchFrom(regex, k + 1, str, j)
            \/ /\ j <= Len(str)
               /\ atomMatches(regex[k].atom, str[j])
               /\ matchFrom(regex, k, str, j + 1)
       ELSE /\ j <= Len(str)
            /\ atomMatches(regex[k].atom, str[j])
            /\ matchFrom(regex, k + 1, str, j + 1)

\* regex.test(url)
test(regex, str) == matchFrom(regex, 1, str, 1)

\* shouldBlockUrl(url)
shouldBlockUrl(u) ==
  \E k \in 1..Len(BLOCKED_REGEXES) : test(BLOCKED_REGEXES[k], u)

\* urls: scheme, "://", sub-domain part, host, rest
GtmUrl == <<"h", "t", "t", "p", "s", ":", "/", "/", "w", "w", "w", ".",
          "g", "o", "o", "g", "l", "e", "t", "a", "g", "m", "a", "n",
          "a", "g", "e", "r", ".", "c", "o", "m", "/", "g", "t", "m",
          ".", "j", "s">>
LogoUrl == <<"h", "t", "t", "p", "s", ":", "/", "/", "e", "x", "a", "m",
           "p", "l", "e", ".", "c", "o", "m", "/", "l", "o", "g", "o",
           ".", "p", "n", "g">>
Schemes == {<<"h", "t", "t", "p">>, <<"H", "T", "T", "P", "S">>}
SubDomains == {<<>>, <<"a", ".">>, <<"a">>}
Hosts == {<<"c", "r", "i", "t", "e", "o", ".", "n", "e", "t">>, <<"C", "r", "i", "t", "e", "o", ".", "N", "E", "T">>, <<"c", "r", "i", "t", "e", "o", "X", "n", "e", "t">>,
          <<"c", "r", "i", "t", "e", "o", ".", "n", "e">>, <<"f", "a", "c", "e", "b", "o", "o", "k", ".", "c", "o", "m">>, <<"e", "x", "a", "m", "p", "l", "e", ".", "c", "o", "m">>}
Rests == {<<>>, <<"/">>, <<"/", "t", "r", "/", "x">>, <<"/", "x", ".", "j", "s">>}
ProbeUrls ==
  {GtmUrl, LogoUrl} \cup
  {sch \o <<":", "/", "/">> \o sub \o host \o rest :
     sch \in Schemes, sub \in SubDomains, host \in Hosts, rest \in Rests}

matchFrame == <<cycle, routes, viewport, net, doc, wait, scroll, shutdown>>

\* the route handler asks shouldBlockUrl about the url of a request
ShouldBlock(u) ==
  /\ probe.state = "none"
  /\ probe' = [state |-> "asked", url |-> u, blocked |-> shouldBlockUrl(u)]
  /\ UNCHANGED <<poolVars, capVars, matchFrame>>

\* the answer has been used
ProbeDone ==
  /\ probe.state = "asked"
  /\ probe' = [probe EXCEPT !.state = "used"]
  /\ UNCHANGED <<poolVars, capVars, matchFrame>>

\* ---- capture(): the try block ------------------------------------------------
\* the awaited operation of slot c fulfils and capture goes on to await nxt
tryOk(c, nxt) ==
  /\ pc' = [pc EXCEPT ![c] = nxt]
  /\ UNCHANGED <<completion, tryExit>>

\* the awaited operation rejects: the try block is left with that error
tryThrowMutant(c, msg) ==
  /\ pc' = [pc EXCEPT ![c] = "goto"]
  /\ UNCHANGED <<completion, tryExit>>
tryThrow(c, msg) ==
  /\ completion' = [completion EXCEPT ![c] = Throw(msg)]
  /\ tryExit' = [tryExit EXCEPT ![c] = Throw(msg)]
  /\ pc' = [pc EXCEPT ![c] = onThrow]

tryFrame == <<build, job, opts, url, cleanupFailed, batch, many, response>>

\* GET /take: the handler builds the options and calls capture(), which calls
\* acquirePage
TakeStart(c, u, o) ==
  /\ Macrotask
  /\ phase = "ready"
  /\ pc[c] = "idle"
  /\ job[c] = "none"
  /\ c \in Slots
  /\ \A d \in 1..(c - 1) : pc[d] # "idle"
  /\ calls < MaxCaptures
  /\ calls' = calls + 1
  /\ job' = [job EXCEPT ![c] = "take"]
  /\ opts' = [opts EXCEPT ![c] = o]
  /\ url' = [url EXCEPT ![c] = u]
  /\ acquireBody(c, firstOp(o))
  /\ UNCHANGED <<phase, browser, pages, createdAt, closed, nextId, warmup,
                 replacing, now, overflowed, retired, releaseCalls, lost>>
  /\ UNCHANGED <<build, completion, tryExit, cleanupFailed, batch, many,
                 response>>
  /\ UNCHANGED auxNoCycle

\* what the /take handler sends once the capture of slot c has settled
takeResponse(c) ==
  IF outcomeOf(c).kind = "return"
  THEN [status |-> 200, body |-> outcomeOf(c).buf]
  ELSE [status |-> 500,
        body |-> [error |-> "Screenshot failed",
                  details |-> outcomeOf(c).message]]

\* page.route('**/*', handler)
Route(c) ==
  /\ Macrotask
  /\ pc[c] = "route"
  /\ \E ok \in BOOLEAN :
       IF ok
       THEN /\ tryOk(c, "viewport")
            /\ routes' = [routes EXCEPT ![held[c]] = @ + 1]
       ELSE /\ tryThrow(c, RendererError)
            /\ UNCHANGED routes
  /\ UNCHANGED poolFrame
  /\ UNCHANGED tryFrame
  /\ UNCHANGED <<cycle, viewport, net, doc, wait, scroll, probe, shutdown>>

\* page.setViewportSize(viewport)
SetViewportSize(c) ==
  /\ Macrotask
  /\ pc[c] = "viewport"
  /\ \E ok \in BOOLEAN :
       IF ok
       THEN /\ tryOk(c, "goto")
            /\ viewport' = [viewport EXCEPT ![held[c]] = viewportOf(opts[c])]
       ELSE /\ tryThrow(c, RendererError)
            /\ UNCHANGED viewport
  /\ UNCHANGED poolFrame
  /\ UNCHANGED tryFrame
  /\ UNCHANGED <<cycle, routes, net, doc, wait, scroll, probe, shutdown>>

\* the handler given to page.route: route.abort() or route.continue()
routeHandler(u) == IF shouldBlockUrl(u) THEN "abort" ELSE "continue"

\* the text of options.url: "gtm" stands for the tag manager's script, any
\* other name u for https://u.test/
href(u) ==
  IF u = "gtm" THEN GtmUrl
  ELSE <<"h", "t", "t", "p", "s", ":", "/", "/", u, ".", "t", "e", "s", "t", "/">>
\* the target urls whose navigation request the route handler aborts
BlockedTargets == {u \in Urls \cup {"gtm"} : routeHandler(href(u)) = "abort"}
\* the navigation request of page.goto is a request of the page like any
\* other: a handler installed on the page decides on it
navBlockedMutant(c) == FALSE
navBlocked(c) == routes[held[c]] > 0 /\ url[c] \in BlockedTargets

\* page.goto(options.url, ...); it rejects when the navigation request is
\* aborted; an Error may carry an empty message
Goto(c) ==
  /\ Macrotask
  /\ pc[c] = "goto"
  /\ IF navBlocked(c)
     THEN tryThrow(c, AbortedError)
     ELSE \/ tryOk(c, afterGoto(opts[c]))
          \/ \E msg \in GotoErrors : tryThrow(c, msg)
  /\ UNCHANGED poolFrame
  /\ UNCHANGED tryFrame
  /\ UNCHANGED auxVars

\* scrollToBottom(page)
ScrollToBottom(c) ==
  /\ Macrotask
  /\ pc[c] = "scroll"
  /\ \E ok \in BOOLEAN :
       IF ok THEN tryOk(c, afterScroll(opts[c])) ELSE tryThrow(c, RendererError)
  /\ UNCHANGED poolFrame
  /\ UNCHANGED tryFrame
  /\ UNCHANGED auxVars

\* waitForImages(page, viewportOnly)
WaitForImages(c) ==
  /\ Macrotask
  /\ pc[c] = "images"
  /\ \E ok \in BOOLEAN :
       IF ok THEN tryOk(c, delayOrExport(opts[c])) ELSE tryThrow(c, RendererError)
  /\ UNCHANGED poolFrame
  /\ UNCHANGED tryFrame
  /\ UNCHANGED auxVars

\* page.waitForTimeout(options.delay * 1000)
Delay(c) ==
  /\ Macrotask
  /\ pc[c] = "delay"
  /\ \E ok \in BOOLEAN :
       IF ok THEN tryOk(c, "export") ELSE tryThrow(c, RendererError)
  /\ UNCHANGED poolFrame
  /\ UNCHANGED tryFrame
  /\ UNCHANGED auxVars

\* page.pdf(...) or page.screenshot(...); `return` leaves the try block
Export(c) ==
  /\ Macrotask
  /\ pc[c] = "export"
  /\ \E ok \in BOOLEAN :
       IF ok
       THEN /\ completion' = [completion EXCEPT
                                ![c] = Return(Buffer(url[c], opts[c]))]
            /\ tryExit' = [tryExit EXCEPT
                             ![c] = Return(Buffer(url[c], opts[c]))]
            /\ pc' = [pc EXCEPT ![c] = finallyStart]
       ELSE tryThrow(c, RendererError)
  /\ UNCHANGED poolFrame
  /\ UNCHANGED tryFrame
  /\ UNCHANGED auxVars

\* ---- capture(): the finally block --------------------------------------------
\* page.unrouteAll({ behavior: 'wait' }).catch(() => {})
UnrouteAll(c) ==
  /\ Macrotask
  /\ pc[c] = "unroute"
  /\ \E ok \in BOOLEAN :
       /\ routes' = IF ok THEN [routes EXCEPT ![held[c]] = 0] ELSE routes
       /\ IF catchSwallow(ok)
          THEN /\ pc' = [pc EXCEPT ![c] = "blank"]
               /\ cleanupFailed' = [cleanupFailed EXCEPT ![c] = @ \/ ~ok]
               /\ UNCHANGED completion
          ELSE /\ pc' = [pc EXCEPT ![c] = "settled"]
               /\ cleanupFailed' = [cleanupFailed EXCEPT ![c] = TRUE]
               /\ completion' = [completion EXCEPT ![c] = Throw("unroute")]
  /\ UNCHANGED poolFrame
  /\ UNCHANGED <<build, job, opts, url, tryExit, batch, many, response>>
  /\ UNCHANGED <<cycle, viewport, net, doc, wait, scroll, probe, shutdown>>

\* page.goto('about:blank').catch(() => {}) settles, then release() is called
GotoBlank(c) ==
  /\ Macrotask
  /\ pc[c] = "blank"
  /\ \E ok \in BOOLEAN :
       IF catchSwallow(ok)
       THEN /\ releaseBody(c, "settled")
            /\ cleanupFailed' = [cleanupFailed EXCEPT ![c] = @ \/ ~ok]
            /\ UNCHANGED completion
       ELSE /\ pc' = [pc EXCEPT ![c] = "settled"]
            /\ cleanupFailed' = [cleanupFailed EXCEPT ![c] = TRUE]
            /\ completion' = [completion EXCEPT ![c] = Throw("blank")]
            /\ UNCHANGED <<inUse, releaseCalls, pages, retired, cycle>>
  /\ UNCHANGED <<phase, browser, createdAt, closed, nextId, warmup,
                 replacing, now, calls, held, overflowed, lost>>
  /\ UNCHANGED <<build, job, opts, url, tryExit, batch, many, response>>
  /\ UNCHANGED auxNoCycle

\* ---- requests of the page --------------------------------------------------------
\* urls of the requests a page issues while it loads and renders
RequestUrls == {GtmUrl, LogoUrl}
\* the request urls that the handler aborts: those for which shouldBlockUrl
\* is true
BlockedUrls == {u \in RequestUrls : routeHandler(u) = "abort"}

\* the page of slot c issues a request: with a handler installed on the page
\* the request is paused and the handler registered last decides on it;
\* without one the request goes to the network
Intercept(c, u) ==
  /\ Macrotask
  /\ job[c] # "none"
  /\ pc[c] \in {"goto", "scroll", "images", "delay", "export"}
  /\ net' = [net EXCEPT ![c] =
               IF routes[held[c]] > 0
               THEN [state |-> "handled", url |-> u,
                     aborted |-> IF u \in BlockedUrls THEN 1 ELSE 0,
                     continued |-> IF u \notin BlockedUrls THEN 1 ELSE 0]
               ELSE [state |-> "passed", url |-> u,
                     aborted |-> 0, continued |-> 0]]
  /\ UNCHANGED <<poolVars, capVars>>
  /\ UNCHANGED <<cycle, routes, viewport, doc, wait, scroll, probe, shutdown>>

CaptureStep ==
  \/ \E c \in Callers : Route(c)
  \/ \E c \in Callers : SetViewportSize(c)
  \/ \E c \in Callers : Goto(c)
  \/ \E c \in Callers : ScrollToBottom(c)
  \/ \E c \in Callers : WaitForImages(c)
  \/ \E c \in Callers : Delay(c)
  \/ \E c \in Callers : Export(c)
  \/ \E c \in Callers : UnrouteAll(c)
  \/ \E c \in Callers : GotoBlank(c)

\* ---- captureMany() -------------------------------------------------------------
\* `result.reason?.message || 'Screenshot failed'`
errorOf(out) == IF out.message = "" THEN "Screenshot failed" ELSE out.message

\* one element of results.map((result, index) => ...) of the allSettled variant
settledItem(u, out) ==
  IF out.kind = "return"
  THEN [tag |-> "Object", url |-> u, success |-> TRUE, buffer |-> out.buf]
  ELSE [tag |-> "Object", url |-> u, success |-> FALSE, error |-> errorOf(out)]

\* captureMany of the variants with Promise.allSettled: outs[i] is the
\* settlement of capture(optionsArray[i])
captureManySettledMutant(us, outs) ==
  [i \in 1..Len(us) |-> settledItem(us[i], outs[Len(us) + 1 - i])]
captureManySettled(us, outs) ==
  [i \in 1..Len(us) |-> settledItem(us[i], outs[i])]

\* captureMany of src/src/screenshot.ts, when Promise.all fulfils
captureManyAll(us, outs) == [i \in 1..Len(us) |-> outs[i].buf]

\* ---- POST /batch ---------------------------------------------------------------
\* Math.round(d / n) for d >= 0, n > 0
round(d, n) == (2 * d + n) \div (2 * n)

\* x.toString('base64'): the encoding of a Buffer; Object.prototype.toString
\* for the result objects of the allSettled variants
toStringBase64(x) ==
  IF x.tag = "Buffer"
  THEN [tag |-> "base64", of |-> x]
  ELSE [tag |-> "string", text |-> "[object Object]"]

\* the body sent by res.json(...)
batchBody(us, o, shots, duration) ==
  LET results == [i \in 1..Len(shots) |->
                    [url   |-> us[i],
                     image |-> toStringBase64(shots[i]),
                     type  |-> typeOf(o)]]
  IN [count      |-> Len(results),
      durationMs |-> duration,
      avgMs      |-> round(duration, Len(results)),
      results    |-> results]

\* the acquirePage calls of the n captures that captureMany starts, in order
RECURSIVE acquireSeq(_, _, _)
acquireSeq(pgs, use, n) ==
  IF n = 0
  THEN [use |-> use, got |-> <<>>]
  ELSE LET r == acquireSeq(pgs, use, n - 1)
           p == find(pgs, r.use)
       IN [use |-> IF p = 0 THEN r.use ELSE [r.use EXCEPT ![p] = TRUE],
           got |-> Append(r.got, p)]

\* the handler validates the body and calls captureMany, which starts one
\* capture per url; each runs up to its first await
BatchStart(us, o) ==
  LET n == Len(us)
      r == acquireSeq(pages, inUse, n)
  IN
  /\ Macrotask
  /\ phase = "ready"
  /\ batch.state = "none"
  /\ \A c \in 1..n : pc[c] = "idle" /\ job[c] = "none"
  /\ calls + n <= MaxCaptures
  /\ calls' = calls + n
  /\ batch' = [state |-> "running", urls |-> us, opts |-> o, start |-> now]
  /\ job' = [c \in Callers |-> IF c <= n THEN "batch" ELSE job[c]]
  /\ opts' = [c \in Callers |-> IF c <= n THEN o ELSE opts[c]]
  /\ url' = [c \in Callers |-> IF c <= n THEN us[c] ELSE url[c]]
  /\ inUse' = r.use
  /\ cycle' = tracked([c \in Callers |->
                         IF c <= n /\ n = 1
                         THEN [before |-> stats.inUse, alone |-> TRUE,
                               passed |-> FALSE, aged |-> FALSE]
                         ELSE NoCycle])
  /\ held' = [c \in Callers |-> IF c <= n THEN r.got[c] ELSE held[c]]
  /\ pc' = [c \in Callers |->
              IF c <= n
              THEN IF r.got[c] # 0 THEN firstOp(o) ELSE "waiting"
              ELSE pc[c]]
  /\ UNCHANGED <<phase, browser, pages, createdAt, closed, nextId, warmup,
                 replacing, now, overflowed, retired, releaseCalls, lost>>
  /\ UNCHANGED <<build, completion, tryExit, cleanupFailed, many, response>>
  /\ UNCHANGED auxNoCycle

\* the promise awaited by captureMany settles; captureMany returns or throws
\* and the handler sends its response
BatchFinish ==
  LET us == batch.urls
      outs == [i \in 1..Len(us) |-> outcomeOf(i)]
      duration == now - batch.start
      settlement ==
        IF build = "basic"
        THEN IF \E c \in Items : Rejected(c)
             THEN [state |-> "rejected",
                   message |-> outcomeOf(CHOOSE c \in Items : Rejected(c)).message]
             ELSE [state |-> "fulfilled", value |-> captureManyAll(us, outs)]
        ELSE [state |-> "fulfilled", value |-> captureManySettled(us, outs)]
  IN
  /\ Alive
  /\ BatchReady
  /\ many' = settlement
  /\ response' =
       IF settlement.state = "fulfilled"
       THEN [status |-> 200,
             body |-> batchBody(us, batch.opts, settlement.value, duration)]
       ELSE [status |-> 500,
             body |-> [error |-> "Batch screenshot failed",
                       details |-> settlement.message]]
  /\ batch' = [batch EXCEPT !.state = "responded"]
  /\ UNCHANGED poolVars
  /\ UNCHANGED <<build, job, opts, url, completion, tryExit, cleanupFailed>>
  /\ UNCHANGED auxVars

\* the request is over and all its captures have settled: the slots are free
BatchClear ==
  /\ Macrotask
  /\ batch.state = "responded"
  /\ \A c \in Items : Settled(c)
  /\ batch' = [state |-> "none"]
  /\ many' = [state |-> "none"]
  /\ response' = [status |-> 0]
  /\ pc' = [c \in Callers |-> IF c \in Items THEN "idle" ELSE pc[c]]
  /\ held' = [c \in Callers |-> IF c \in Items THEN 0 ELSE held[c]]
  /\ releaseCalls' = [c \in Callers |-> IF c \in Items THEN 0 ELSE releaseCalls[c]]
  /\ cycle' = endCycle(Items)
  /\ net' = [c \in Callers |-> IF c \in Items THEN NoRequest ELSE net[c]]
  /\ job' = [c \in Callers |-> IF c \in Items THEN "none" ELSE job[c]]
  /\ opts' = [c \in Callers |-> IF c \in Items THEN [type |-> "png"] ELSE opts[c]]
  /\ url' = [c \in Callers |-> IF c \in Items THEN "" ELSE url[c]]
  /\ completion' = [c \in Callers |->
                      IF c \in Items THEN NoCompletion ELSE completion[c]]
  /\ tryExit' = [c \in Callers |->
                   IF c \in Items THEN NoCompletion ELSE tryExit[c]]
  /\ cleanupFailed' = [c \in Callers |->
                         IF c \in Items THEN FALSE ELSE cleanupFailed[c]]
  /\ UNCHANGED <<phase, browser, pages, inUse, createdAt, closed, nextId,
                 warmup, replacing, now, calls, overflowed, retired, lost>>
  /\ UNCHANGED build
  /\ UNCHANGED <<routes, viewport, doc, wait, scroll, probe, shutdown>>

\* ---- close() / the SIGTERM handler -----------------------------------------------
closeFrame == <<phase, pages, inUse, createdAt, nextId, warmup, replacing, now,
                calls, pc, held, overflowed, retired, releaseCalls, lost>>
closeAux == <<cycle, routes, viewport, net, doc, wait, scroll, probe>>

\* SIGTERM arrives: close() starts its loop over this.pages and awaits the
\* close of the first context, or of the renderer when there is none
Sigterm ==
  /\ Macrotask
  /\ phase = "ready"
  /\ shutdown.state = "none"
  /\ IF Len(pages) > 0
     THEN /\ shutdown' = [state |-> "contexts", index |-> 1]
          /\ closed' = closed \cup {pages[1]}
     ELSE /\ shutdown' = [state |-> "browser", index |-> 1]
          /\ UNCHANGED closed
  /\ UNCHANGED browser
  /\ UNCHANGED <<closeFrame, capVars, closeAux>>

\* context.close().catch(() => {}) settles: the array iterator moves to the
\* next index of this.pages as it is now; past its end the loop is over and
\* browser.close() is awaited
CloseNext ==
  /\ Macrotask
  /\ shutdown.state = "contexts"
  /\ IF shutdown.index + 1 <= Len(pages)
     THEN /\ shutdown' = [shutdown EXCEPT !.index = @ + 1]
          /\ closed' = closed \cup {pages[shutdown.index + 1]}
     ELSE /\ shutdown' = [shutdown EXCEPT !.state = "browser"]
          /\ UNCHANGED closed
  /\ UNCHANGED browser
  /\ UNCHANGED <<closeFrame, capVars, closeAux>>

\* browser.close() settles: fulfilled, the handler calls process.exit(0);
\* rejected, close() and the handler reject and the process dies of the
\* unhandled rejection
CloseBrowser ==
  /\ Macrotask
  /\ shutdown.state = "browser"
  /\ \E ok \in BOOLEAN :
       IF ok
       THEN /\ shutdown' = [shutdown EXCEPT !.state = "exited"]
            /\ browser' = "closed"
       ELSE /\ shutdown' = [shutdown EXCEPT !.state = "rejected"]
            /\ UNCHANGED browser
  /\ UNCHANGED closed
  /\ UNCHANGED <<closeFrame, capVars, closeAux>>

\* ---- waitForImages(), inside the page -------------------------------------------
\* `timeout = 5000`
defaultTimeout == 5000

\* an <img>: whether its bounding rectangle intersects the viewport, and
\* img.complete
Images == [inView : BOOLEAN, complete : BOOLEAN]
\* Array.from(document.images)
Docs == UNION {[1..n -> Images] : n \in 0..MaxImages}

\* targetImages: the images the wait is about
targetImagesMutant(viewportOnly) == DOMAIN doc
targetImages(viewportOnly) ==
  IF viewportOnly THEN {i \in DOMAIN doc : doc[i].inView} ELSE DOMAIN doc

\* unloadedImages
unloadedImages(viewportOnly) ==
  {i \in targetImages(viewportOnly) : ~doc[i].complete}

PageInit ==
  /\ doc = <<>>
  /\ wait = NoWait
  /\ scroll = NoScroll
  /\ probe = NoProbe

waitFrame == <<cycle, routes, viewport, net, probe, shutdown, scroll>>

\* page.evaluate runs the function: the timer is set, the images are
\* collected; with nothing to wait for the timer is cleared and the promise
\* resolved, otherwise the listeners are attached
WaitStart(viewportOnly) ==
  /\ wait.state = "idle"
  /\ wait' = IF unloadedImages(viewportOnly) = {}
             THEN [state |-> "resolved", by |-> "nothing", timer |-> "cleared",
                   viewportOnly |-> viewportOnly, unloaded |-> {},
                   reported |-> {}, loaded |-> 0, elapsed |-> 0]
             ELSE [state |-> "pending", by |-> "", timer |-> "set",
                   viewportOnly |-> viewportOnly,
                   unloaded |-> unloadedImages(viewportOnly),
                   reported |-> {}, loaded |-> 0, elapsed |-> 0]
  /\ UNCHANGED doc
  /\ UNCHANGED <<poolVars, capVars, waitFrame>>

\* an image fires `load` or `error` (an image may fire again, when its source
\* changes); checkDone runs if a listener is attached to it
ImageEvent(i) ==
  /\ i \in DOMAIN doc
  /\ wait.state \in {"idle", "pending"}
  /\ doc' = [doc EXCEPT ![i].complete = TRUE]
  /\ IF wait.state = "pending" /\ i \in wait.unloaded
     THEN IF wait.loaded + 1 >= Cardinality(wait.unloaded)
          THEN wait' = [wait EXCEPT !.state = "resolved", !.by = "images",
                                    !.timer = "cleared",
                                    !.loaded = @ + 1,
                                    !.reported = @ \cup {i}]
          ELSE wait' = [wait EXCEPT !.loaded = @ + 1,
                                    !.reported = @ \cup {i}]
     ELSE UNCHANGED wait
  /\ UNCHANGED <<poolVars, capVars, waitFrame>>

\* the page's clock advances, at most up to the moment the timer is due
TimePasses ==
  /\ wait.state = "pending"
  /\ wait.elapsed < defaultTimeout
  /\ wait' = [wait EXCEPT !.elapsed =
                 IF @ + WaitStep > defaultTimeout THEN defaultTimeout
                 ELSE @ + WaitStep]
  /\ UNCHANGED doc
  /\ UNCHANGED <<poolVars, capVars, waitFrame>>

\* setTimeout(resolve, maxWait) fires
TimerFires ==
  /\ wait.state = "pending"
  /\ wait.timer = "set"
  /\ wait.elapsed >= defaultTimeout
  /\ wait' = [wait EXCEPT !.state = "resolved", !.by = "timer",
                           !.timer = "fired"]
  /\ UNCHANGED doc
  /\ UNCHANGED <<poolVars, capVars, waitFrame>>

InitWaiter ==
  /\ PoolInit /\ CapInit /\ build = "images"
  /\ cycle = Untracked
  /\ doc \in Docs
  /\ wait = NoWait
  /\ scroll = NoScroll
  /\ probe = NoProbe

NextWaiter ==
  \/ \E viewportOnly \in BOOLEAN : WaitStart(viewportOnly)
  \/ \E i \in 1..MaxImages : ImageEvent(i)
  \/ TimePasses
  \/ TimerFires

\* the page's clock runs and a due timer fires; no image has to report
FairWaiter ==
  InitWaiter /\ [][NextWaiter]_vars /\ WF_vars(TimePasses) /\ WF_vars(TimerFires)

Init == PoolInit /\ CapInit /\ PageInit /\ cycle = Untracked /\ build = "images"

Next ==
  \/ PoolStep
  \/ \E c \in Callers : AcquirePage(c)
  \/ \E c \in Callers : Release(c)
  \/ \E c \in Callers : NextCall(c)

Spec == Init /\ [][Next]_vars

\* the pool with a record of every caller's acquire/release cycle
InitCycle ==
  /\ PoolInit /\ CapInit /\ PageInit /\ build = "images"
  /\ cycle = [c \in Callers |-> NoCycle]

SpecCycle == InitCycle /\ [][Next]_vars

\* the pool used also before its initialize() has completed, with contexts
\* younger than maxPageAge
NextCold ==
  \/ Launch
  \/ WarmupOk
  \/ \E c \in Callers : AcquireCold(c)
  \/ \E c \in Callers : AcquirePage(c)
  \/ \E c \in Callers : Rescan(c)
  \/ \E c \in Callers : CreateOk(c)
  \/ \E c \in Callers : CreateFail(c)
  \/ \E c \in Callers : MarkCreated(c)
  \/ \E c \in Callers : Release(c)
  \/ \E c \in Callers : NextCall(c)

SpecCold == Init /\ [][NextCold]_vars

\* ---- scrollToBottom(), inside the page ------------------------------------------
\* `const distance = 300`
distance == 300

\* a page, as the scroll pass sees it: document.body.scrollHeight, by how much
\* that grows when the window is scrolled (lazy-loaded content), and how many
\* times it still does so (-1: every time, a feed without end)
ScrollPages ==
  {pg \in [height : {h \in 0..MaxHeight : h % 100 = 0},
          growth : {0, 100, 300}, loads : -1..MaxLoads] :
     (pg.growth = 0) = (pg.loads = 0)}

\* page.evaluate runs the function: setInterval(..., 100) is set
ScrollStart(pg) ==
  /\ scroll.state = "idle"
  /\ scroll' = [state |-> "running", totalHeight |-> 0, page |-> pg,
                atTop |-> TRUE]
  /\ UNCHANGED <<poolVars, capVars>>
  /\ UNCHANGED <<cycle, routes, viewport, net, doc, wait, probe, shutdown>>

\* the document after window.scrollBy(0, distance)
scrolled(pg) ==
  IF pg.loads = 0 THEN pg
  ELSE [pg EXCEPT !.height = @ + pg.growth,
                  !.loads = IF @ = -1 THEN -1 ELSE @ - 1]

\* totalHeight and the document's height are followed exactly up to MaxTotal
\* and relative to each other beyond it (both are taken two steps back): the
\* callback only compares them
rebase(sc) ==
  IF sc.totalHeight > MaxTotal
  THEN [sc EXCEPT !.totalHeight = @ - 2 * distance,
                  !.page.height = @ - 2 * distance]
  ELSE sc

\* the interval's callback runs once
IntervalFires ==
  /\ scroll.state = "running"
  /\ LET scrollHeight == scroll.page.height
         totalHeight == scroll.totalHeight + distance
         after == scrolled(scroll.page)
     IN scroll' =
          IF totalHeight >= scrollHeight
          THEN [scroll EXCEPT !.state = "pausing", !.totalHeight = totalHeight,
                              !.page = after, !.atTop = TRUE]
          ELSE rebase([scroll EXCEPT !.totalHeight = totalHeight,
                                     !.page = after, !.atTop = FALSE])
  /\ UNCHANGED <<poolVars, capVars>>
  /\ UNCHANGED <<cycle, routes, viewport, net, doc, wait, probe, shutdown>>

\* setTimeout(resolve, 200) fires
PauseEnds ==
  /\ scroll.state = "pausing"
  /\ scroll' = [scroll EXCEPT !.state = "resolved"]
  /\ UNCHANGED <<poolVars, capVars>>
  /\ UNCHANGED <<cycle, routes, viewport, net, doc, wait, probe, shutdown>>

NextScroll ==
  \/ \E pg \in ScrollPages : ScrollStart(pg)
  \/ IntervalFires
  \/ PauseEnds

\* the page's timers fire
FairScroll ==
  Init /\ [][NextScroll]_vars /\ WF_vars(IntervalFires) /\ WF_vars(PauseEnds)

NextMatch ==
  \/ \E u \in ProbeUrls : ShouldBlock(u)
  \/ ProbeDone

SpecMatch == Init /\ [][NextMatch]_vars

NextClose ==
  \/ Next
  \/ Sigterm
  \/ CloseNext
  \/ CloseBrowser

SpecClose == Init /\ [][NextClose]_vars

InitCapture ==
  PoolInit /\ CapInit /\ PageInit /\ cycle = Untracked /\ build \in Builds

NextCapture ==
  \/ PoolStep
  \/ \E c \in Callers : NextCall(c)
  \/ \E c \in Callers, u \in TakeUrls, o \in OptionSet : TakeStart(c, u, o)
  \/ CaptureStep

SpecCapture == InitCapture /\ [][NextCapture]_vars

\* captures with and without blocking, by the service that has every step
\* captures of a page that no rule matches and of one that a rule matches,
\* with blocking enabled, on contexts younger than maxPageAge
NextNav ==
  \/ Launch
  \/ WarmupOk
  \/ \E c \in Callers : Rescan(c)
  \/ \E c \in Callers : CreateOk(c)
  \/ \E c \in Callers : CreateFail(c)
  \/ \E c \in Callers : MarkCreated(c)
  \/ \E c \in Callers : NextCall(c)
  \/ \E c \in Callers, u \in {"a", "gtm"},
          o \in {[type |-> "png"], [fullPage |-> TRUE, delay |-> 1]} :
       TakeStart(c, u, o)
  \/ \E c \in Callers : Route(c)
  \/ \E c \in Callers : SetViewportSize(c)
  \/ \E c \in Callers : Goto(c)
  \/ \E c \in Callers : ScrollToBottom(c)
  \/ \E c \in Callers : WaitForImages(c)
  \/ \E c \in Callers : Delay(c)
  \/ \E c \in Callers : Export(c)
  \/ \E c \in Callers : UnrouteAll(c)
  \/ \E c \in Callers : GotoBlank(c)

SpecNav == Init /\ [][NextNav]_vars

NextRoute ==
  \/ PoolStep
  \/ \E c \in Callers : NextCall(c)
  \/ \E c \in Callers, u \in TakeUrls,
          o \in {[blockAds |-> FALSE], [fullPage |-> TRUE, delay |-> 1]} :
       TakeStart(c, u, o)
  \/ CaptureStep
  \/ \E c \in Callers, u \in RequestUrls : Intercept(c, u)

SpecRoute == Init /\ [][NextRoute]_vars

NextBatch ==
  \/ PoolStep
  \/ \E us \in UrlLists, o \in OptionSet : BatchStart(us, o)
  \/ CaptureStep
  \/ BatchFinish
  \/ BatchClear

SpecBatch == InitCapture /\ [][NextBatch]_vars

\* the timer of a waiting acquirePage fires, the renderer answers a pending
\* context creation, and queued promise continuations run
FairSpec ==
  /\ Spec
  /\ \A c \in Callers : WF_vars(Rescan(c))
  /\ \A c \in Callers : WF_vars(CreateOk(c) \/ CreateFail(c))
  /\ \A c \in Callers : WF_vars(MarkCreated(c))

\* ==== claims =====================================================================

\* C1: no context is held by two callers at once: of two different callers
\* that have been returned a context and have not yet called release, the
\* contexts differ (free scan, rescan and overflow paths alike).
C1_NoSharedContext ==
  \A c1, c2 \in Callers :
    (c1 # c2 /\ Holding(c1) /\ Holding(c2)) => held[c1] # held[c2]

\* two callers hold contexts at once, one from the pool's warm contexts and
\* one created on the overflow path
C1_Witness ==
  \E c1, c2 \in Callers :
    /\ c1 # c2
    /\ Holding(c1) /\ held[c1] \in overflowed
    /\ Holding(c2) /\ held[c2] \notin overflowed

\* C2 as stated: every acquire() returns a context; none ends in an error.
C2_NoAcquireError == \A c \in Callers : pc[c] # "acquireFailed"

\* C2 amended: every acquire() that did not get a context from its first scan
\* eventually settles without any release having to happen: it returns a
\* context, or it rejects, and it rejects only when the creation of its
\* overflow context was rejected by the renderer.
C2_EveryAcquireSettles ==
  /\ \A c \in Callers :
       (pc[c] \in {"waiting", "creating", "created"})
         ~> (pc[c] \in {"acquired", "acquireFailed"})
  /\ [][\A c \in Callers :
          (pc'[c] = "acquireFailed" /\ pc[c] # "acquireFailed")
            => pc[c] = "creating"]_vars

\* more callers than the pool's capacity hold contexts and nobody has released
C2_Witness ==
  /\ Cardinality({c \in Callers : Holding(c)}) > PoolSize
  /\ \A c \in Callers : releaseCalls[c] = 0

\* C3: a capture that has acquired a context calls release exactly once on
\* every exit path: never more than once, not before its finally block, and
\* when the capture has settled the context is free again unless another
\* caller has acquired it since.
C3_ReleasedExactlyOnce ==
  \A c \in Callers :
    job[c] # "none" =>
      /\ releaseCalls[c] <= 1
      /\ Holding(c) => releaseCalls[c] = 0
      /\ pc[c] = "settled" =>
           /\ releaseCalls[c] = 1
           /\ inUse[held[c]] =>
                \E d \in Callers : d # c /\ Holding(d) /\ held[d] = held[c]

\* a capture whose try block was left by an error has settled after having
\* released its context
C3_Witness ==
  \E c \in Callers :
    /\ job[c] # "none" /\ pc[c] = "settled"
    /\ tryExit[c].kind = "throw"
    /\ releaseCalls[c] = 1

\* C4: cleanup failures change nothing: while the finally block runs and once
\* the capture has settled, the completion it carries is the one its try block
\* was left with, and a settled capture has called release.
C4_CleanupSwallowed ==
  \A c \in Callers :
    (job[c] # "none" /\ pc[c] \in {"unroute", "blank", "closing", "settled"})
      => /\ completion[c] = tryExit[c]
         /\ pc[c] \in {"closing", "settled"} => releaseCalls[c] = 1

\* a capture whose cleanup failed has settled with the error of its try block,
\* and one whose cleanup failed has settled with its bytes
C4_Witness ==
  /\ \E c \in Callers :
       /\ pc[c] = "settled" /\ cleanupFailed[c]
       /\ completion[c].kind = "throw"
  /\ \E c \in Callers :
       /\ pc[c] = "settled" /\ cleanupFailed[c]
       /\ completion[c].kind = "return"

\* C5: captureMany never fails because an item failed, and its list has, for
\* every request, success = false with a non-empty error for a failed capture
\* and success = true with the bytes for a succeeded one.
C5_ItemsIsolated ==
  many.state # "none" =>
    /\ many.state = "fulfilled"
    /\ \A i \in 1..Len(batch.urls) :
         LET x == many.value[i] IN
           /\ "success" \in DOMAIN x
           /\ x.success => (Fulfilled(i) /\ x.buffer = tryExit[i].buf)
           /\ ~x.success => (Rejected(i) /\ x.error # "")

\* C6: when captureMany returns a list it has one entry per request, entry i
\* is the outcome of request i (the bytes rendered from urls[i], or the error
\* of that capture) and carries urls[i], as does entry i of the response.
C6_OrderPreserved ==
  many.state = "fulfilled" =>
    /\ Len(many.value) = Len(batch.urls)
    /\ Len(response.body.results) = Len(batch.urls)
    /\ \A i \in 1..Len(batch.urls) :
         LET x == many.value[i] IN
           /\ response.body.results[i].url = batch.urls[i]
           /\ IF build = "basic"
              THEN x = tryExit[i].buf /\ x.url = batch.urls[i]
              ELSE /\ x.url = batch.urls[i]
                   /\ x.success = (tryExit[i].kind = "return")
                   /\ x.success =>
                        (x.buffer = tryExit[i].buf /\ x.buffer.url = x.url)
                   /\ ~x.success =>
                        x.error = IF Rejected(i) /\ outcomeOf(i).message # ""
                                  THEN outcomeOf(i).message
                                  ELSE "Screenshot failed"

\* a batch of two different urls has returned its list; the first capture
\* failed and the second succeeded
C6_Witness ==
  /\ many.state = "fulfilled"
  /\ Len(batch.urls) = 2
  /\ batch.urls[1] # batch.urls[2]
  /\ Rejected(1)
  /\ Fulfilled(2)

\* C7: the batch response reports count, successCount and failedCount, with
\* successCount + failedCount = count, and avgMs = round(durationMs / count).
C7_BatchCounts ==
  response.status = 200 =>
    /\ {"count", "successCount", "failedCount"} \subseteq DOMAIN response.body
    /\ response.body.count = Len(batch.urls)
    /\ response.body.successCount =
         Cardinality({i \in Items : Fulfilled(i)})
    /\ response.body.failedCount =
         Cardinality({i \in Items : Rejected(i)})
    /\ response.body.avgMs =
         round(response.body.durationMs, response.body.count)

\* no createPooledPage call is pending and no release is in progress
Quiescent ==
  /\ replacing = 0
  /\ \A c \in Callers : pc[c] \notin {"creating", "created", "closing"}

\* C8: once an aged context has been retired and every creation it or anybody
\* else started has completed successfully, the pool's total is back at the
\* configured capacity.
C8_TotalRestored ==
  (retired # {} /\ Quiescent /\ lost = 0) => stats.total = PoolSize

\* C9: overflow contexts are not tracked: none is in this.pages, and
\* stats().total never exceeds the configured capacity.
C9_OverflowUntracked ==
  /\ stats.total <= PoolSize
  /\ \A i \in 1..Len(pages) : pages[i] \notin overflowed

\* C10: in every state a stats() snapshot satisfies
\* available + inUse = total, and total is the number of tracked contexts.
C10_StatsSum ==
  /\ stats.available + stats.inUse = stats.total
  /\ stats.total = Len(pages)

\* a snapshot taken while one caller holds a context, one release is retiring
\* an aged context and one acquire has just had its overflow context created
C10_Witness ==
  \E a, b, c \in Callers :
    /\ Holding(a)
    /\ pc[b] = "closing"
    /\ pc[c] = "created"
    /\ stats.inUse >= 1
    /\ stats.available >= 1

\* C11: after a complete acquire/release cycle of a caller, with no other
\* acquire or release in between, stats().inUse is what it was when the
\* caller called acquirePage, whichever path gave it the context and whether
\* or not its release retired the context.
C11_CycleRestoresInUse ==
  \A c \in Callers :
    (releaseCalls[c] = 1 /\ cycle[c].alone) => stats.inUse = cycle[c].before

\* a caller has completed a cycle, undisturbed, in which it was given an
\* overflow context while another caller held the pool's context, and in
\* which its release retired that context
C11_Witness ==
  \E c \in Callers :
    /\ pc[c] = "done"
    /\ releaseCalls[c] = 1
    /\ cycle[c].alone
    /\ cycle[c].before >= 1
    /\ held[c] \in overflowed
    /\ held[c] \in retired

\* C12: the image wait resolves, and no later than its timeout, even when a
\* relevant image never reports; with viewport-only scope it waits only on
\* images that intersect the viewport: while it is pending, an image inside
\* the viewport has still to report.
C12_WaitBounded ==
  /\ (wait.state = "pending") ~> (wait.state = "resolved")
  /\ [](wait.state = "resolved" => wait.elapsed <= defaultTimeout)
  /\ []((wait.state = "pending" /\ wait.viewportOnly) =>
          /\ \A i \in wait.unloaded : doc[i].inView
          /\ \E i \in wait.unloaded \ wait.reported : doc[i].inView)

\* a viewport-only wait was resolved by its timer at the timeout, with an
\* image inside the viewport and one outside it both still loading
C12_Witness ==
  /\ wait.state = "resolved"
  /\ wait.by = "timer"
  /\ wait.viewportOnly
  /\ wait.elapsed = defaultTimeout
  /\ \E i, j \in DOMAIN doc :
       /\ doc[i].inView /\ ~doc[i].complete
       /\ ~doc[j].inView /\ ~doc[j].complete

\* C13: the steps of one capture happen in the stated order: acquire, hook
\* (blocking enabled only), viewport, navigate, readiness wait (scroll pass
\* and then the image wait over all images for a whole-page capture, the
\* image wait over the viewport's images and no scroll pass otherwise), delay
\* (if > 0), encode, clear hook, navigate to blank, release; a failed step
\* of the try block is followed by the clearing of the hook.
C13_StepOrder ==
  [][LET \* the step that the stated order puts after step `from` of a
         \* capture with options o, when `from` succeeds
         statedNext(from, o) ==
        CASE from = "acquire"  -> IF blockAdsOf(o) THEN "route" ELSE "viewport"
          [] from = "route"    -> "viewport"
          [] from = "viewport" -> "goto"
          [] from = "goto"     -> IF fullPageOf(o) THEN "scroll" ELSE "images"
          [] from = "scroll"   -> "images"
          [] from = "images"   -> IF delayOf(o) > 0 THEN "delay" ELSE "export"
          [] from = "delay"    -> "export"
          [] from = "export"   -> "unroute"
          [] OTHER             -> "blank"
     IN
     \A c \in Callers :
       (job'[c] # "none" /\ pc'[c] # pc[c]) =>
         LET o == opts'[c] IN
         CASE pc[c] \in {"idle", "waiting", "created"} ->
                pc'[c] \in {"waiting", "creating", statedNext("acquire", o)}
           [] pc[c] = "creating" -> pc'[c] \in {"created", "acquireFailed"}
           [] pc[c] \in {"route", "viewport", "goto", "scroll", "images",
                         "delay", "export"} ->
                /\ \/ pc'[c] = statedNext(pc[c], o)
                   \/ pc'[c] = "unroute" /\ completion'[c].kind = "throw"
                /\ pc'[c] = "images" =>
                     viewportOnlyOf(o) = (pc[c] # "scroll")
           [] pc[c] = "unroute" -> pc'[c] = "blank"
           [] pc[c] = "blank" ->
                /\ pc'[c] \in {"closing", "settled"}
                /\ releaseCalls'[c] = releaseCalls[c] + 1
           [] pc[c] = "closing" -> pc'[c] = "settled"
           [] OTHER -> FALSE]_vars

\* C14: start-up is all or nothing: the service starts serving only at the
\* moment the renderer runs and all PoolSize initial contexts exist; once
\* initialize has failed (renderer not started, or one creation failed) it
\* stays failed; and a capture request is only ever in progress after
\* initialize has succeeded.
C14_NoPartialStartup ==
  /\ []((\E c \in Callers : job[c] # "none" \/ pc[c] # "idle")
          => phase = "ready")
  /\ [][(phase' = "ready" /\ phase # "ready") =>
           (browser' = "open" /\ warmup' = 0 /\ Len(pages') = PoolSize)]_vars
  /\ [][phase = "failed" => phase' = "failed"]_vars

\* the renderer started and an initial context creation failed: start-up is
\* aborted and no request has been served
C14_Witness ==
  /\ phase = "failed"
  /\ browser = "open"
  /\ calls = 0

\* C15: close() always completes, whatever fails while it destroys contexts
\* and the renderer, and by the time it turns to the renderer it has called
\* close on every context the pool tracks; also with releases that retire
\* aged contexts running at the same time.
C15_CloseCompletes ==
  /\ shutdown.state # "rejected"
  /\ shutdown.state \in {"browser", "exited"} =>
       \A i \in 1..Len(pages) : pages[i] \in closed

\* C16: a release that retires an aged context completes without waiting for
\* the destruction of that context or for the creation of its replacement: no
\* caller is ever inside its release call waiting for context.close().
C16_ReleaseNotBlocked ==
  \A c \in Callers : pc[c] = "closing" => releaseCalls[c] = 0

\* C17: shouldBlockUrl(url) is true exactly when the whole url, compared
\* without regard to case and with `*` standing for any run of characters,
\* matches one of the configured patterns; it is true for
\* https://www.googletagmanager.com/gtm.js and false for
\* https://example.com/logo.png.
C17_FullStringMatch ==
  LET globMatches(pat, str) ==
        LET M[i \in 1..(Len(pat) + 1), j \in 1..(Len(str) + 1)] ==
              IF i > Len(pat) THEN j > Len(str)
              ELSE IF pat[i] = "*"
                   THEN M[i + 1, j] \/ (j <= Len(str) /\ M[i, j + 1])
                   ELSE /\ j <= Len(str)
                        /\ Canonicalize(pat[i]) = Canonicalize(str[j])
                        /\ M[i + 1, j + 1]
        IN M[1, 1]
  IN probe.state = "asked" =>
       /\ probe.blocked =
            (\E k \in 1..Len(BLOCKED_PATTERNS) :
               globMatches(BLOCKED_PATTERNS[k], probe.url))
       /\ probe.url = GtmUrl => probe.blocked
       /\ probe.url = LogoUrl => ~probe.blocked

\* shouldBlockUrl has answered true for the tag manager's script
C17_Witness ==
  /\ probe.state = "asked"
  /\ probe.url = GtmUrl
  /\ probe.blocked

\* C18: a request of a capture with blocking enabled that is intercepted gets
\* exactly one decision, abort if shouldBlockUrl is true for its url and
\* continue otherwise; a capture with blocking disabled installs no hook and
\* none of its requests is suppressed.
C18_OneDecision ==
  \A c \in Callers :
    /\ (job[c] # "none" /\ ~blockAdsOf(opts[c])) => pc[c] # "route"
    /\ net[c].state # "none" =>
         IF blockAdsOf(opts[c])
         THEN net[c].state = "handled" =>
                /\ net[c].aborted + net[c].continued = 1
                /\ (net[c].aborted = 1) = (net[c].url \in BlockedUrls)
         ELSE net[c].aborted = 0

\* C20: while a capture navigates and renders, the viewport of its page is
\* the device preset if a device was given (desktop 1280x720, tablet
\* 768x1024, mobile 375x667), whatever width and height say, and otherwise
\* the given width and height, each 1280 resp. 720 when absent; whatever the
\* page's previous capture had set.
C20_ViewportOfRequest ==
  \A c \in Callers :
    (job[c] # "none" /\ pc[c] \in {"goto", "scroll", "images", "delay", "export"})
      => LET o == opts[c]
             expected ==
               IF "device" \in DOMAIN o
               THEN CASE o.device = "desktop" -> [width |-> 1280, height |-> 720]
                      [] o.device = "tablet"  -> [width |-> 768, height |-> 1024]
                      [] o.device = "mobile"  -> [width |-> 375, height |-> 667]
               ELSE [width  |-> IF "width" \in DOMAIN o THEN o.width ELSE 1280,
                     height |-> IF "height" \in DOMAIN o THEN o.height ELSE 720]
         IN viewport[held[c]] = expected

\* a capture that names a device and a width navigates on a page whose
\* previous capture, now settled, had set another viewport
C20_Witness ==
  \E c, d \in Callers :
    /\ c # d
    /\ pc[c] = "goto"
    /\ {"device", "width"} \subseteq DOMAIN opts[c]
    /\ pc[d] = "settled" /\ tryExit[d].kind = "return"
    /\ held[d] = held[c]
    /\ viewportOf(opts[d]) # viewportOf(opts[c])

\* C19: a capture whose navigation, readiness wait or export failed is
\* answered as a failure with a non-empty message, and nothing is retried:
\* a capture never goes back to an earlier step, so it acquires once and
\* navigates to its target at most once.
C19_FailsOnceNoRetry ==
  /\ [](\A c \in Callers :
          (job[c] = "take" /\ pc[c] = "settled" /\ tryExit[c].kind = "throw")
            => /\ takeResponse(c).status = 500
               /\ takeResponse(c).body.error # "")
  /\ [][LET steps == <<"idle", "waiting", "creating", "created", "route",
                       "viewport", "goto", "scroll", "images", "delay",
                       "export", "unroute", "blank", "closing", "settled">>
            rank(at) == IF at = "acquireFailed" THEN Len(steps)
                        ELSE CHOOSE k \in 1..Len(steps) : steps[k] = at
        IN \A c \in Callers :
             (job'[c] # "none" /\ pc'[c] # pc[c])
               => rank(pc'[c]) > rank(pc[c])]_vars

\* a /take capture whose navigation failed with an error that has no message
\* has settled and is answered with status 500
C19_Witness ==
  \E c \in Callers :
    /\ job[c] = "take" /\ pc[c] = "settled"
    /\ tryExit[c] = Throw("")
    /\ takeResponse(c).status = 500

\* C21: an acquirePage call whose scan finds no free context starts the wait
\* interval, and one whose scan finds one takes it; when the interval ends the
\* call rescans and either takes the free context it finds or goes to overflow
\* creation; a call enters the wait interval only when it is issued, hence at
\* most once.
C21_WaitsOnce ==
  [][\A c \in Callers :
       LET p == find(pages, inUse) IN
       /\ (pc[c] = "idle" /\ pc'[c] # "idle")
            => IF p = 0 THEN pc'[c] = "waiting"
               ELSE held'[c] = p /\ pc'[c] \notin {"waiting", "creating"}
       /\ (pc[c] = "waiting" /\ pc'[c] # "waiting")
            => IF p = 0 THEN pc'[c] = "creating"
               ELSE held'[c] = p /\ pc'[c] \notin {"waiting", "creating"}
       /\ (pc'[c] = "waiting" /\ pc[c] # "waiting") => pc[c] = "idle"]_vars

\* a call has waited, rescanned without success and asked for an overflow
\* context, while another caller holds the pool's own context
C21_Witness ==
  \E c, d \in Callers :
    /\ pc[c] = "creating"
    /\ pc[d] = "acquired"
    /\ held[d] \notin overflowed

\* C22: acquisition is not first come, first served: a call whose scan finds
\* a free context takes it at once although an earlier call is in its wait
\* interval, and the earlier call keeps waiting with nothing reserved for it.
C22_NotFifo ==
  [][\A l, e \in Callers :
       LET p == find(pages, inUse) IN
       (pc[l] = "idle" /\ pc'[l] # "idle" /\ pc[e] = "waiting" /\ p # 0)
         => /\ held'[l] = p
            /\ inUse'[p]
            /\ pc'[e] = "waiting"
            /\ held'[e] = held[e]]_vars

\* a later call holds the pooled context that a third caller had released,
\* and the earlier call, passed during its wait interval, has ended up with
\* an overflow context
C22_Witness ==
  \E e, l, a \in Callers :
    /\ e # l /\ a # e /\ a # l
    /\ cycle[e].passed
    /\ pc[e] = "acquired" /\ held[e] \in overflowed
    /\ pc[l] = "acquired" /\ held[l] \notin overflowed
    /\ releaseCalls[a] = 1 /\ held[a] = held[l]

\* C23: the scroll pass always ends: once started it scrolls back to the top
\* and resolves, on every page, also on one that grows whenever it is scrolled.
C23_ScrollTerminates ==
  (scroll.state = "running") ~> (scroll.state = "resolved" /\ scroll.atTop)

\* C24: the image wait resolves at once when no relevant image is pending,
\* and it is resolved ahead of its timer only when every image that was
\* relevant and pending at its start has reported load or error; a second
\* report of one image does not count for another.
C24_AllImagesReported ==
  /\ (wait.state = "resolved" /\ wait.by = "nothing")
       => (wait.unloaded = {} /\ wait.elapsed = 0)
  /\ (wait.state = "resolved" /\ wait.by = "images")
       => wait.reported = wait.unloaded

\* C25: a context that is free in the pool has no interception hook on its
\* page, and no page ever has more than one hook.
C25_NoLeftoverHook ==
  /\ \A k \in 1..Len(pages) : ~inUse[pages[k]] => routes[pages[k]] = 0
  /\ \A i \in Ids : routes[i] <= 1

\* C26: acquirePage makes no age test: it hands out the first free context
\* whatever its age and neither removes nor retires a context; a context
\* leaves the pool only at a release, and the release of a context older than
\* maxPageAge retires it.
C26_AgeCheckedAtRelease ==
  [][\A c \in Callers :
       LET p == find(pages, inUse)
           h == held[c]
           old == h # 0 /\ now - createdAt[h] > maxPageAge
           releases == releaseCalls'[c] = releaseCalls[c] + 1
       IN
       /\ (pc[c] \in {"idle", "waiting"} /\ pc'[c] # pc[c] /\ p # 0)
            => (held'[c] = p /\ pages' = pages /\ retired' = retired)
       /\ (releases /\ old /\ indexOf(pages, h) > 0)
            => (h \in retired' /\ indexOf(pages', h) = 0)
       /\ (releases /\ ~old) => pages' = pages
       /\ (\E k \in 1..Len(pages) : indexOf(pages', pages[k]) = 0)
            => \E d \in Callers : releaseCalls'[d] = releaseCalls[d] + 1]_vars

\* a caller holds the pool's own context, which was older than maxPageAge
\* when acquirePage handed it out
C26_Witness ==
  \E c \in Callers :
    /\ pc[c] = "acquired"
    /\ cycle[c].aged
    /\ held[c] \notin overflowed
    /\ indexOf(pages, held[c]) > 0

\* C27: the handler installed by a capture with blocking enabled also decides
\* on the navigation request: a capture whose target url matches a block rule
\* never gets past page.goto, it settles as a failure, and by then its
\* release function has been called once and its context is not marked busy.
C27_BlockedTargetFails ==
  \A c \in Callers :
    (job[c] # "none" /\ blockAdsOf(opts[c]) /\ url[c] \in BlockedTargets)
      => /\ pc[c] \notin {"scroll", "images", "delay", "export"}
         /\ pc[c] = "settled"
              => /\ outcomeOf(c).kind = "throw"
                 /\ releaseCalls[c] = 1
                 /\ held[c] \in retired \/ ~inUse[held[c]]
                       \/ \E d \in Callers \ {c} : Holding(d) /\ held[d] = held[c]

\* the capture of the tag manager's script, with blocking enabled, has
\* settled with the error of its aborted navigation, its context released
C27_Witness ==
  \E c \in Callers :
    /\ job[c] = "take" /\ url[c] = "gtm" /\ blockAdsOf(opts[c])
    /\ pc[c] = "settled"
    /\ tryExit[c] = Throw(AbortedError)
    /\ releaseCalls[c] = 1

\* C28: an acquirePage call that fails leaves the pool as it is: none of its
\* steps (start of the wait, rescan without success, rejected creation)
\* changes this.pages or a busy flag, and the failed call holds no context
\* and has called no release function.
C28_FailedAcquireNoEffect ==
  /\ [](\A c \in Callers :
          pc[c] = "acquireFailed" => (held[c] = 0 /\ releaseCalls[c] = 0))
  /\ [][\A c \in Callers :
          (pc'[c] # pc[c] /\ pc'[c] \in {"waiting", "creating", "acquireFailed"})
            => /\ pages' = pages
               /\ inUse' = inUse
               /\ retired' = retired
               /\ held' = held
               /\ releaseCalls' = releaseCalls]_vars

\* the creation of an overflow context has failed for one caller while
\* another holds the pool's only context
C28_Witness ==
  \E c, d \in Callers :
    /\ pc[c] = "acquireFailed"
    /\ browser = "open"
    /\ pc[d] = "acquired" /\ held[d] \notin overflowed
    /\ stats.total = PoolSize
    /\ stats.inUse = 1

\* C29: once the captureMany call of a batch has settled, no capture of the
\* batch holds a context: each has released what acquirePage gave it.
C29_BatchHoldsNothing ==
  many.state \in {"fulfilled", "rejected"}
    => \A c \in Items : ~Holding(c) /\ (held[c] # 0 => releaseCalls[c] = 1)
====
